---- MODULE Spec2Model ----
(***************************************************************************)
(* Model of package binary (common/go/binary): the Binary process handle.  *)
(*                                                                         *)
(* Every goroutine of a handle is a process of the model with its own      *)
(* program counter: the caller of Run()/RunAsJob() (pcRun), the            *)
(* exit-watcher goroutine started by Run() (pcWatch) and the callers of    *)
(* Exit() (pcExit).  The operating-system process is modelled by proc, the *)
(* fields of exec.Cmd that isRunning() reads by cmdSet, cmdProcess and     *)
(* processState.  Plain (unsynchronised) fields such as b.exiting and      *)
(* cmd.ProcessState are read and written in separate steps, so every order *)
(* of the racing accesses is explored.                                     *)
(***************************************************************************)
EXTENDS Integers, Sequences, FiniteSets, TLC

(* ------------------------------ bounds -------------------------------- *)

\* Number of goroutines that call Exit() on the handle (each calls it once;
\* calls of different goroutines may overlap or follow one another).
NumExitCallers == 2

\* How many callbacks of each class the user registers before Run().
MaxUserCallbacks == 1

\* How many members of a group fail in one run: their spawn fails, or their
\* process terminates on its own.
MaxMemberFailures == 1

(* ------------------------- program constants -------------------------- *)

\* const portCheckMaxAttempts
portCheckMaxAttempts == 40

\* A nonzero readiness port, as passed to WithPort.
SomePort == 5432

(* ------------------------------ state --------------------------------- *)

VARIABLES
    \* configuration of the handle (Binary struct)
    job,              \* b.job
    port,             \* b.port
    errorCallbacks,   \* b.errorCallbacks: sequence of callback names
    exitCallbacks,    \* b.exitCallbacks: sequence of callback names
    \* runtime fields of the handle
    cmdSet,           \* b.cmd != nil
    cmdProcess,       \* b.cmd.Process != nil
    processState,     \* b.cmd.ProcessState: "nil", "exit0", "exitN", "signaled"
    done,             \* b.done is closed
    exiting,          \* b.exiting
    terminateOnce,    \* b.terminateOnce: "fresh", "running", "done"
    \* the operating-system process
    proc,             \* "none", "alive", "exit0", "exitN", "signaled"
    \* goroutine calling Run() / RunAsJob()
    pcRun,            \* position in Run
    entry,            \* "none", "Run" or "RunAsJob"
    attempts,         \* loop variable i of waitForPort
    dieErr,           \* argument of the pending die(err) call
    jobError,         \* RunAsJob's captured variable
    runResult,        \* value returned by RunAsJob ("unset" until it returns)
    \* exit-watcher goroutine
    pcWatch,          \* "none", "waiting", "classify", "errorCallbacks", "exitCallbacks", "finished"
    waitErr,          \* error returned by cmd.Wait()
    cbIdx,            \* index of the next callback to invoke
    \* goroutines calling Exit()
    pcExit,           \* position in Exit, per caller
    exitTarget,       \* handle each caller calls Exit() on
    \* observation (history) variables
    sigSent,          \* number of Process.Signal(SIGTERM) calls
    sigDelivered,     \* number of them that reached a live process
    errFired,         \* number of runErrorCallbacks invocations
    exitFired,        \* number of runExitCallbacks invocations
    cbLog,            \* callbacks invoked, in order: records [cb, arg]
    dials,            \* number of net.Dial attempts made by waitForPort
    dialOk,           \* a net.Dial attempt succeeded
    exitCalled,       \* Exit() has been called on the handle
    exitingAtDeath,   \* value of b.exiting when the process terminated
    procAtCall,       \* per caller, when it called Exit(): "none", "alive" or "ended"
    spawnFailed,      \* a pipe or cmd.Start returned an error
    \* line-reader goroutines of redirectOutput
    drains,           \* per handle, the streams whose reader is still running
    \* the Worker (group of handles)
    sequentialMode,   \* w.sequentialMode
    terminating,      \* w.terminating
    workerOnce,       \* w.terminateOnce: "fresh", "running", "done"
    errors,           \* w.errors: sequence of records [member, kind]
    workerCbLog,      \* errors the Worker's own error callbacks were invoked with
    pcMain,           \* goroutine calling Worker.Run / RunSequentially
    pcUser,           \* goroutine calling Worker.Exit
    pcCb,             \* per handle, position of its watcher inside a Worker closure
    pcTeardown,       \* position of the goroutine that runs Worker.terminate
    tdIdx,            \* loop variable i of Worker.terminate
    aliveAtCascade   \* observation: the members whose process was alive when a
                      \* teardown started by Worker.die began

cfgVars == <<job, port, errorCallbacks, exitCallbacks>>
cmdVars == <<cmdSet, cmdProcess, processState>>
runVars == <<pcRun, entry, attempts, dieErr, jobError, runResult>>
watchVars == <<pcWatch, waitErr, cbIdx>>
callerVars == <<pcExit, exitTarget>>
histVars == <<sigSent, sigDelivered, errFired, exitFired, cbLog, dials, dialOk, exitCalled,
              exitingAtDeath, procAtCall, spawnFailed>>

workerVars == <<sequentialMode, terminating, workerOnce, errors, workerCbLog,
                pcMain, pcUser, pcCb, pcTeardown, tdIdx, aliveAtCascade>>
groupVars == <<drains, workerVars>>

vars == <<cfgVars, cmdVars, done, exiting, terminateOnce, proc, runVars,
          watchVars, callerVars, histVars, groupVars>>

(* ----------------------------- helpers -------------------------------- *)

\* The handles of the model, and the goroutines calling Exit().
Handles == {1}
ExitCallers == 1..NumExitCallers

\* The two output streams redirectOutput attaches a line reader to.
OutputStreams == {"stdout", "stderr"}

\* User callbacks registered with OnError / OnExit before Run().
UserCallbacks(n) == [i \in 1..n |-> <<"user", i>>]

\* The callback RunAsJob registers: func(err error) { jobError = err }.
JobErrorCallback == <<"jobError", 0>>

\* A callback of the program that calls Worker.Exit() on the group.
ExitingCallback == <<"callsWorkerExit", 0>>

\* The closures Worker.runBinary registers on a member with OnError and OnExit.
GroupErrorCallback == <<"workerOnError", 0>>
GroupExitCallback == <<"workerOnExit", 0>>

\* A cmd.Wait() that reports an error for every exit, status 0 included.
WaitError_AlwaysError(state) == "waitErr"

\* cmd.Wait() returns a non-nil *ExitError unless the process exited with status 0.
WaitError(state) == IF state = "exit0" THEN "nil" ELSE "waitErr"

\* ProcessState.Exited(): true for a normal exit, false when killed by a signal.
Exited(state) == state \in {"exit0", "exitN"}

\* isRunning(): b.cmd != nil && b.cmd.Process != nil &&
\*              (b.cmd.ProcessState == nil || !b.cmd.ProcessState.Exited())
isRunning(h) ==
    /\ cmdSet[h]
    /\ cmdProcess[h]
    /\ (processState[h] = "nil" \/ ~Exited(processState[h]))

(* ------------------------------- Init --------------------------------- *)

\* The handles H are used on their own: there is no Worker, and its variables
\* keep the zero values of the struct.
NoWorker(H) ==
    /\ sequentialMode = FALSE
    /\ terminating = FALSE
    /\ workerOnce = "fresh"
    /\ errors = <<>>
    /\ workerCbLog = <<>>
    /\ pcMain = "idle"
    /\ pcUser = "idle"
    /\ pcCb = [h \in H |-> "none"]
    /\ pcTeardown = "none"
    /\ tdIdx = 0
    /\ aliveAtCascade = {}

\* State after New() and the builder calls (AsJob, WithPort, OnError, OnExit).
Init ==
    /\ job \in [Handles -> BOOLEAN]
    /\ port \in [Handles -> {0, SomePort}]
    /\ errorCallbacks = [h \in Handles |-> UserCallbacks(MaxUserCallbacks)]
    /\ exitCallbacks = [h \in Handles |-> UserCallbacks(MaxUserCallbacks)]
    /\ cmdSet = [h \in Handles |-> FALSE]
    /\ cmdProcess = [h \in Handles |-> FALSE]
    /\ processState = [h \in Handles |-> "nil"]
    /\ done = [h \in Handles |-> FALSE]
    /\ exiting = [h \in Handles |-> FALSE]
    /\ terminateOnce = [h \in Handles |-> "fresh"]
    /\ proc = [h \in Handles |-> "none"]
    /\ pcRun = [h \in Handles |-> "idle"]
    /\ entry = [h \in Handles |-> "none"]
    /\ attempts = [h \in Handles |-> 0]
    /\ dieErr = [h \in Handles |-> "nil"]
    /\ jobError = [h \in Handles |-> "nil"]
    /\ runResult = [h \in Handles |-> "unset"]
    /\ pcWatch = [h \in Handles |-> "none"]
    /\ waitErr = [h \in Handles |-> "nil"]
    /\ cbIdx = [h \in Handles |-> 1]
    /\ pcExit = [c \in ExitCallers |-> "idle"]
    /\ exitTarget = [c \in ExitCallers |-> 1]
    /\ sigSent = [h \in Handles |-> 0]
    /\ sigDelivered = [h \in Handles |-> 0]
    /\ errFired = [h \in Handles |-> 0]
    /\ exitFired = [h \in Handles |-> 0]
    /\ cbLog = [h \in Handles |-> <<>>]
    /\ dials = [h \in Handles |-> 0]
    /\ dialOk = [h \in Handles |-> FALSE]
    /\ exitCalled = [h \in Handles |-> FALSE]
    /\ exitingAtDeath = [h \in Handles |-> FALSE]
    /\ procAtCall = [c \in ExitCallers |-> "none"]
    /\ spawnFailed = [h \in Handles |-> FALSE]
    /\ drains = [h \in Handles |-> {}]
    /\ NoWorker(Handles)

(* ------------------------ Run() and RunAsJob() ------------------------ *)

\* RunAsJob on a handle that is not a job: returns an error, Run() is not called.
RunAsJobNotJob(h) ==
    /\ pcRun[h] = "idle"
    /\ ~job[h]
    /\ entry' = [entry EXCEPT ![h] = "RunAsJob"]
    /\ runResult' = [runResult EXCEPT ![h] = "notJobErr"]
    /\ pcRun' = [pcRun EXCEPT ![h] = "returned"]
    /\ UNCHANGED <<groupVars, cfgVars, cmdVars, done, exiting, terminateOnce, proc, attempts,
                   dieErr, jobError, watchVars, callerVars, histVars>>

\* RunAsJob on a job: registers the capturing error callback, then calls Run().
RunAsJob(h) ==
    /\ pcRun[h] = "idle"
    /\ job[h]
    /\ entry' = [entry EXCEPT ![h] = "RunAsJob"]
    /\ errorCallbacks' = [errorCallbacks EXCEPT ![h] = Append(@, JobErrorCallback)]
    /\ cmdSet' = [cmdSet EXCEPT ![h] = TRUE]
    /\ pcRun' = [pcRun EXCEPT ![h] = "spawn"]
    /\ UNCHANGED <<groupVars, job, port, exitCallbacks, cmdProcess, processState, done, exiting,
                   terminateOnce, proc, attempts, dieErr, jobError, runResult,
                   watchVars, callerVars, histVars>>

\* Run(): b.cmd = exec.Command(...).
Run(h) ==
    /\ pcRun[h] = "idle"
    /\ entry' = [entry EXCEPT ![h] = "Run"]
    /\ cmdSet' = [cmdSet EXCEPT ![h] = TRUE]
    /\ pcRun' = [pcRun EXCEPT ![h] = "spawn"]
    /\ UNCHANGED <<groupVars, cfgVars, cmdProcess, processState, done, exiting, terminateOnce,
                   proc, attempts, dieErr, jobError, runResult, watchVars,
                   callerVars, histVars>>

\* redirectOutput(StdoutPipe), redirectOutput(StderrPipe) or cmd.Start() fails:
\* Run calls die(err) and will return.
SpawnFails(h) ==
    /\ pcRun[h] = "spawn"
    /\ spawnFailed' = [spawnFailed EXCEPT ![h] = TRUE]
    /\ dieErr' = [dieErr EXCEPT ![h] = "spawnErr"]
    /\ pcRun' = [pcRun EXCEPT ![h] = "die"]
    /\ UNCHANGED <<groupVars, cfgVars, cmdVars, done, exiting, terminateOnce, proc, entry,
                   attempts, jobError, runResult, watchVars, callerVars, sigSent, sigDelivered,
                   errFired, exitFired, cbLog, dials, dialOk, exitCalled,
                   exitingAtDeath, procAtCall>>

\* Both pipes and cmd.Start() succeed: the two line readers of redirectOutput
\* are running, the process exists and the exit-watcher goroutine is started.
SpawnOk(h) ==
    /\ pcRun[h] = "spawn"
    /\ cmdProcess' = [cmdProcess EXCEPT ![h] = TRUE]
    /\ proc' = [proc EXCEPT ![h] = "alive"]
    /\ pcWatch' = [pcWatch EXCEPT ![h] = "waiting"]
    /\ pcRun' = [pcRun EXCEPT ![h] = IF port[h] # 0 THEN "waitForPort" ELSE "jobWait"]
    /\ drains' = [drains EXCEPT ![h] = OutputStreams]
    /\ UNCHANGED <<workerVars, cfgVars, cmdSet, processState, done, exiting, terminateOnce,
                   entry, attempts, dieErr, jobError, runResult, waitErr, cbIdx,
                   callerVars, histVars>>

\* waitForPort: one tick of the ticker and one net.Dial, which fails.
DialFails(h) ==
    /\ pcRun[h] = "waitForPort"
    /\ attempts[h] < portCheckMaxAttempts
    /\ attempts' = [attempts EXCEPT ![h] = @ + 1]
    /\ dials' = [dials EXCEPT ![h] = @ + 1]
    /\ UNCHANGED <<groupVars, cfgVars, cmdVars, done, exiting, terminateOnce, proc, pcRun,
                   entry, dieErr, jobError, runResult, watchVars, callerVars,
                   sigSent, sigDelivered, errFired, exitFired, cbLog, dialOk, exitCalled,
                   exitingAtDeath, procAtCall, spawnFailed>>

\* waitForPort: one tick and one net.Dial, which succeeds: conn.Close(); return.
DialSucceeds(h) ==
    /\ pcRun[h] = "waitForPort"
    /\ attempts[h] < portCheckMaxAttempts
    /\ dials' = [dials EXCEPT ![h] = @ + 1]
    /\ dialOk' = [dialOk EXCEPT ![h] = TRUE]
    /\ pcRun' = [pcRun EXCEPT ![h] = "jobWait"]
    /\ UNCHANGED <<groupVars, cfgVars, cmdVars, done, exiting, terminateOnce, proc, entry,
                   attempts, dieErr, jobError, runResult, watchVars, callerVars,
                   sigSent, sigDelivered, errFired, exitFired, cbLog, exitCalled, exitingAtDeath,
                   procAtCall, spawnFailed>>

\* waitForPort: the loop ends without a connection: die(failed to open port).
PortTimeout(h) ==
    /\ pcRun[h] = "waitForPort"
    /\ attempts[h] >= portCheckMaxAttempts
    /\ dieErr' = [dieErr EXCEPT ![h] = "portErr"]
    /\ pcRun' = [pcRun EXCEPT ![h] = "die"]
    /\ UNCHANGED <<groupVars, cfgVars, cmdVars, done, exiting, terminateOnce, proc, entry,
                   attempts, jobError, runResult, watchVars, callerVars, histVars>>

(* ------------------------- die(err), in Run() ------------------------- *)

\* Where Run() continues after die(err) returns: it returns at once after a
\* spawn failure, and falls through to the job wait after waitForPort.
AfterDie(h) == IF dieErr[h] = "spawnErr" THEN "return" ELSE "jobWait"

\* A die that marks the handle as exiting, as Exit() does.
DieEnter_SetsExiting(h) ==
    /\ pcRun[h] = "die"
    /\ terminateOnce[h] # "running"
    /\ IF terminateOnce[h] = "fresh"
          THEN /\ terminateOnce' = [terminateOnce EXCEPT ![h] = "running"]
               /\ exiting' = [exiting EXCEPT ![h] = TRUE]
               /\ pcRun' = [pcRun EXCEPT ![h] = "dieCheck"]
          ELSE /\ pcRun' = [pcRun EXCEPT ![h] = AfterDie(h)]
               /\ UNCHANGED <<terminateOnce, exiting>>
    /\ UNCHANGED <<groupVars, cfgVars, cmdVars, done, proc, entry, attempts, dieErr,
                   jobError, runResult, watchVars, callerVars, histVars>>

\* die: b.terminateOnce.Do(...).  The first caller of Do runs the body; a
\* caller that finds the body running blocks until it has finished; a caller
\* that finds it finished returns at once.
DieEnter(h) ==
    /\ pcRun[h] = "die"
    /\ terminateOnce[h] # "running"
    /\ IF terminateOnce[h] = "fresh"
          THEN /\ terminateOnce' = [terminateOnce EXCEPT ![h] = "running"]
               /\ pcRun' = [pcRun EXCEPT ![h] = "dieCheck"]
          ELSE /\ pcRun' = [pcRun EXCEPT ![h] = AfterDie(h)]
               /\ UNCHANGED terminateOnce
    /\ UNCHANGED <<groupVars, cfgVars, cmdVars, done, exiting, proc, entry, attempts, dieErr,
                   jobError, runResult, watchVars, callerVars, histVars>>

\* die: if b.isRunning() { b.terminate() }
DieCheck(h) ==
    /\ pcRun[h] = "dieCheck"
    /\ pcRun' = [pcRun EXCEPT ![h] = IF isRunning(h) THEN "dieSignal" ELSE "dieRelease"]
    /\ UNCHANGED <<groupVars, cfgVars, cmdVars, done, exiting, terminateOnce, proc, entry,
                   attempts, dieErr, jobError, runResult, watchVars, callerVars,
                   histVars>>

\* terminate: b.cmd.Process.Signal(syscall.SIGTERM); an error is only logged.
DieSignal(h) ==
    /\ pcRun[h] = "dieSignal"
    /\ sigSent' = [sigSent EXCEPT ![h] = @ + 1]
    /\ sigDelivered' = [sigDelivered EXCEPT ![h] = IF proc[h] = "alive" THEN @ + 1 ELSE @]
    /\ pcRun' = [pcRun EXCEPT ![h] = "dieWaitDone"]
    /\ UNCHANGED <<groupVars, cfgVars, cmdVars, done, exiting, terminateOnce, proc, entry,
                   attempts, dieErr, jobError, runResult, watchVars, callerVars,
                   errFired, exitFired, cbLog, dials, dialOk, exitCalled,
                   exitingAtDeath, procAtCall, spawnFailed>>

\* terminate: <-b.done
DieWaitDone(h) ==
    /\ pcRun[h] = "dieWaitDone"
    /\ done[h]
    /\ pcRun' = [pcRun EXCEPT ![h] = "dieRelease"]
    /\ UNCHANGED <<groupVars, cfgVars, cmdVars, done, exiting, terminateOnce, proc, entry,
                   attempts, dieErr, jobError, runResult, watchVars, callerVars,
                   histVars>>

\* The body of terminateOnce.Do returns: waiting callers of Do are released.
DieRelease(h) ==
    /\ pcRun[h] = "dieRelease"
    /\ terminateOnce' = [terminateOnce EXCEPT ![h] = "done"]
    /\ pcRun' = [pcRun EXCEPT ![h] = AfterDie(h)]
    /\ UNCHANGED <<groupVars, cfgVars, cmdVars, done, exiting, proc, entry, attempts, dieErr,
                   jobError, runResult, watchVars, callerVars, histVars>>

\* A Run() that waits for b.done whether or not the handle is a job.
RunMayReturn_AlwaysWaits(h) ==
    \/ pcRun[h] = "return"
    \/ pcRun[h] = "jobWait" /\ done[h]

\* A Run() that does not wait for b.done when the handle is a job.
RunMayReturn_NoJobWait(h) == pcRun[h] \in {"return", "jobWait"}

\* What Run() waits for before it returns: if b.job { <-b.done }.
RunMayReturn(h) ==
    \/ pcRun[h] = "return"
    \/ pcRun[h] = "jobWait" /\ (job[h] => done[h])

\* Run() returns; RunAsJob then returns jobError.
RunReturns(h) ==
    /\ RunMayReturn(h)
    /\ pcRun' = [pcRun EXCEPT ![h] = "returned"]
    /\ runResult' = [runResult EXCEPT ![h] =
                        IF entry[h] = "RunAsJob" THEN jobError[h] ELSE "void"]
    /\ UNCHANGED <<groupVars, cfgVars, cmdVars, done, exiting, terminateOnce, proc, entry,
                   attempts, dieErr, jobError, watchVars, callerVars, histVars>>

(* --------------------- the operating-system process ------------------- *)

\* The process terminates: it exits with status 0, exits with a nonzero
\* status, or is killed by a signal (SIGTERM included).
ProcessTerminates(h) ==
    /\ proc[h] = "alive"
    /\ \E how \in {"exit0", "exitN", "signaled"} :
          proc' = [proc EXCEPT ![h] = how]
    /\ exitingAtDeath' = [exitingAtDeath EXCEPT ![h] = exiting[h]]
    /\ UNCHANGED <<groupVars, cfgVars, cmdVars, done, exiting, terminateOnce, runVars,
                   watchVars, callerVars, sigSent, sigDelivered, errFired,
                   exitFired, cbLog, dials, dialOk, exitCalled, procAtCall,
                   spawnFailed>>

(* ------------------- the exit-watcher goroutine of Run() -------------- *)

\* cmd.Wait() returns: it has reaped the process and set cmd.ProcessState.
WaitReturns(h) ==
    /\ pcWatch[h] = "waiting"
    /\ proc[h] \in {"exit0", "exitN", "signaled"}
    /\ processState' = [processState EXCEPT ![h] = proc[h]]
    /\ waitErr' = [waitErr EXCEPT ![h] = WaitError(proc[h])]
    /\ pcWatch' = [pcWatch EXCEPT ![h] = "classify"]
    /\ UNCHANGED <<groupVars, cfgVars, cmdSet, cmdProcess, done, exiting, terminateOnce, proc,
                   runVars, cbIdx, callerVars, histVars>>

\* The classification with the test of b.exiting inverted.
IsFailure_ExitingInverted(h) == waitErr[h] # "nil" /\ exiting[h]

\* The classification without the test of b.exiting.
IsFailure_IgnoresExiting(h) == waitErr[h] # "nil"

\* if err := b.cmd.Wait(); err != nil && !b.exiting
IsFailure(h) == waitErr[h] # "nil" /\ ~exiting[h]

\* Exit classification: runErrorCallbacks(err) or runExitCallbacks().
Classify(h) ==
    /\ pcWatch[h] = "classify"
    /\ IF IsFailure(h)
          THEN /\ pcWatch' = [pcWatch EXCEPT ![h] = "errorCallbacks"]
               /\ errFired' = [errFired EXCEPT ![h] = @ + 1]
               /\ UNCHANGED exitFired
          ELSE /\ pcWatch' = [pcWatch EXCEPT ![h] = "exitCallbacks"]
               /\ exitFired' = [exitFired EXCEPT ![h] = @ + 1]
               /\ UNCHANGED errFired
    /\ cbIdx' = [cbIdx EXCEPT ![h] = 1]
    /\ UNCHANGED <<groupVars, cfgVars, cmdVars, done, exiting, terminateOnce, proc, runVars,
                   waitErr, callerVars, sigSent, sigDelivered, cbLog, dials, dialOk,
                   exitCalled, exitingAtDeath, procAtCall, spawnFailed>>

\* A loop that goes over the callbacks of the firing class twice.
FiringList_Twice(h) ==
    IF pcWatch[h] = "errorCallbacks"
       THEN errorCallbacks[h] \o errorCallbacks[h]
       ELSE exitCallbacks[h] \o exitCallbacks[h]

\* A loop that goes over the callbacks of the firing class from the last
\* registered to the first.
FiringList_Reversed(h) ==
    LET l == IF pcWatch[h] = "errorCallbacks" THEN errorCallbacks[h] ELSE exitCallbacks[h]
    IN  [i \in 1..Len(l) |-> l[Len(l) + 1 - i]]

\* The callbacks the watcher is iterating over.
FiringList(h) ==
    IF pcWatch[h] = "errorCallbacks" THEN errorCallbacks[h] ELSE exitCallbacks[h]

\* The argument the callbacks of the firing class receive.
FiringArg(h) == IF pcWatch[h] = "errorCallbacks" THEN waitErr[h] ELSE "none"

\* One iteration of the loop of runErrorCallbacks / runExitCallbacks, for a
\* callback that returns without touching the handle or the Worker (the two
\* closures of Worker.runBinary and a callback that calls Worker.Exit() have
\* their own steps).
InvokeCallback(h) ==
    /\ pcWatch[h] \in {"errorCallbacks", "exitCallbacks"}
    /\ cbIdx[h] <= Len(FiringList(h))
    /\ FiringList(h)[cbIdx[h]] \notin {GroupErrorCallback, GroupExitCallback, ExitingCallback}
    /\ cbLog' = [cbLog EXCEPT ![h] =
                    Append(@, [cb |-> FiringList(h)[cbIdx[h]], arg |-> FiringArg(h)])]
    /\ jobError' = [jobError EXCEPT ![h] =
                       IF FiringList(h)[cbIdx[h]] = JobErrorCallback
                          THEN FiringArg(h) ELSE @]
    /\ cbIdx' = [cbIdx EXCEPT ![h] = @ + 1]
    /\ UNCHANGED <<groupVars, cfgVars, cmdVars, done, exiting, terminateOnce, proc, pcRun,
                   entry, attempts, dieErr, runResult, pcWatch, waitErr, callerVars,
                   sigSent, sigDelivered, errFired, exitFired, dials, dialOk,
                   exitCalled, exitingAtDeath, procAtCall, spawnFailed>>

\* A watcher that closes b.done without waiting for the callbacks to return.
CloseDone_BeforeCallbacks(h) ==
    /\ pcWatch[h] \in {"errorCallbacks", "exitCallbacks"}
    /\ done' = [done EXCEPT ![h] = TRUE]
    /\ pcWatch' = [pcWatch EXCEPT ![h] = "finished"]
    /\ UNCHANGED <<groupVars, cfgVars, cmdVars, exiting, terminateOnce, proc, runVars, waitErr,
                   cbIdx, callerVars, histVars>>

\* defer close(b.done): runs when the callbacks have returned.
CloseDone(h) ==
    /\ pcWatch[h] \in {"errorCallbacks", "exitCallbacks"}
    /\ cbIdx[h] > Len(FiringList(h))
    /\ done' = [done EXCEPT ![h] = TRUE]
    /\ pcWatch' = [pcWatch EXCEPT ![h] = "finished"]
    /\ UNCHANGED <<groupVars, cfgVars, cmdVars, exiting, terminateOnce, proc, runVars, waitErr,
                   cbIdx, callerVars, histVars>>

(* ------------------------------- Exit() ------------------------------- *)

\* A goroutine calls Exit() on the handle.  The callers are interchangeable, so
\* they are taken in the order of their numbers.
ExitCall(c) ==
    /\ pcExit[c] = "idle"
    /\ \A d \in DOMAIN pcExit : d < c => pcExit[d] # "idle"
    /\ pcExit' = [pcExit EXCEPT ![c] = "once"]
    /\ exitCalled' = [exitCalled EXCEPT ![exitTarget[c]] = TRUE]
    /\ procAtCall' = [procAtCall EXCEPT ![c] =
                        IF proc[exitTarget[c]] \in {"none", "alive"}
                           THEN proc[exitTarget[c]] ELSE "ended"]
    /\ UNCHANGED <<groupVars, cfgVars, cmdVars, done, exiting, terminateOnce, proc, runVars,
                   watchVars, exitTarget, sigSent, sigDelivered, errFired,
                   exitFired, cbLog, dials, dialOk, exitingAtDeath, spawnFailed>>

\* Exit: b.terminateOnce.Do(func() { b.exiting = true; ... })
ExitEnter(c) ==
    LET h == exitTarget[c] IN
    /\ pcExit[c] = "once"
    /\ terminateOnce[h] # "running"
    /\ IF terminateOnce[h] = "fresh"
          THEN /\ terminateOnce' = [terminateOnce EXCEPT ![h] = "running"]
               /\ exiting' = [exiting EXCEPT ![h] = TRUE]
               /\ pcExit' = [pcExit EXCEPT ![c] = "check"]
          ELSE /\ pcExit' = [pcExit EXCEPT ![c] = "returned"]
               /\ UNCHANGED <<terminateOnce, exiting>>
    /\ UNCHANGED <<groupVars, cfgVars, cmdVars, done, proc, runVars, watchVars, exitTarget,
                   histVars>>

\* Exit: if b.isRunning() { b.terminate() }
ExitCheck(c) ==
    /\ pcExit[c] = "check"
    /\ pcExit' = [pcExit EXCEPT ![c] =
                     IF isRunning(exitTarget[c]) THEN "signal" ELSE "release"]
    /\ UNCHANGED <<groupVars, cfgVars, cmdVars, done, exiting, terminateOnce, proc, runVars,
                   watchVars, exitTarget, histVars>>

\* terminate: b.cmd.Process.Signal(syscall.SIGTERM); an error is only logged.
ExitSignal(c) ==
    LET h == exitTarget[c] IN
    /\ pcExit[c] = "signal"
    /\ sigSent' = [sigSent EXCEPT ![h] = @ + 1]
    /\ sigDelivered' = [sigDelivered EXCEPT ![h] = IF proc[h] = "alive" THEN @ + 1 ELSE @]
    /\ pcExit' = [pcExit EXCEPT ![c] = "waitDone"]
    /\ UNCHANGED <<groupVars, cfgVars, cmdVars, done, exiting, terminateOnce, proc, runVars,
                   watchVars, exitTarget, errFired, exitFired, cbLog, dials, dialOk,
                   exitCalled, exitingAtDeath, procAtCall, spawnFailed>>

\* terminate: <-b.done
ExitWaitDone(c) ==
    /\ pcExit[c] = "waitDone"
    /\ done[exitTarget[c]]
    /\ pcExit' = [pcExit EXCEPT ![c] = "release"]
    /\ UNCHANGED <<groupVars, cfgVars, cmdVars, done, exiting, terminateOnce, proc, runVars,
                   watchVars, exitTarget, histVars>>

\* The body of terminateOnce.Do returns, and Exit() with it.
ExitRelease(c) ==
    /\ pcExit[c] = "release"
    /\ terminateOnce' = [terminateOnce EXCEPT ![exitTarget[c]] = "done"]
    /\ pcExit' = [pcExit EXCEPT ![c] = "returned"]
    /\ UNCHANGED <<groupVars, cfgVars, cmdVars, done, exiting, proc, runVars, watchVars,
                   exitTarget, histVars>>

(* ------------------ the line readers of redirectOutput ---------------- *)

\* The goroutine started by redirectOutput for stream s ends: outScanner.Scan()
\* returns false once the stream is closed, which happens when the process has
\* exited.  Nothing in the handle waits for this goroutine.
DrainFinishes(h, s) ==
    /\ s \in drains[h]
    /\ proc[h] \in {"exit0", "exitN", "signaled"}
    /\ drains' = [drains EXCEPT ![h] = @ \ {s}]
    /\ UNCHANGED <<workerVars, cfgVars, cmdVars, done, exiting, terminateOnce, proc,
                   runVars, watchVars, callerVars, histVars>>

(* --------------------------- specification ---------------------------- *)

Next ==
    \/ \E h \in DOMAIN pcRun : RunAsJobNotJob(h)
    \/ \E h \in DOMAIN pcRun : RunAsJob(h)
    \/ \E h \in DOMAIN pcRun : Run(h)
    \/ \E h \in DOMAIN pcRun : SpawnFails(h)
    \/ \E h \in DOMAIN pcRun : SpawnOk(h)
    \/ \E h \in DOMAIN pcRun : DialFails(h)
    \/ \E h \in DOMAIN pcRun : DialSucceeds(h)
    \/ \E h \in DOMAIN pcRun : PortTimeout(h)
    \/ \E h \in DOMAIN pcRun : DieEnter(h)
    \/ \E h \in DOMAIN pcRun : DieCheck(h)
    \/ \E h \in DOMAIN pcRun : DieSignal(h)
    \/ \E h \in DOMAIN pcRun : DieWaitDone(h)
    \/ \E h \in DOMAIN pcRun : DieRelease(h)
    \/ \E h \in DOMAIN pcRun : RunReturns(h)
    \/ \E h \in DOMAIN pcRun : ProcessTerminates(h)
    \/ \E h \in DOMAIN pcRun : WaitReturns(h)
    \/ \E h \in DOMAIN pcRun : Classify(h)
    \/ \E h \in DOMAIN pcRun : InvokeCallback(h)
    \/ \E h \in DOMAIN pcRun : CloseDone(h)
    \/ \E c \in DOMAIN pcExit : ExitCall(c)
    \/ \E c \in DOMAIN pcExit : ExitEnter(c)
    \/ \E c \in DOMAIN pcExit : ExitCheck(c)
    \/ \E c \in DOMAIN pcExit : ExitSignal(c)
    \/ \E c \in DOMAIN pcExit : ExitWaitDone(c)
    \/ \E c \in DOMAIN pcExit : ExitRelease(c)

Spec == Init /\ [][Next]_vars

\* A handle without a readiness port (WithPort is not called), together with
\* its two line-reader goroutines.
DrainInit == Init /\ port = [h \in Handles |-> 0]

\* Without a port waitForPort is never called, so its steps, and the signal die
\* sends after a readiness timeout, are not part of this next-state relation.
DrainNext ==
    \/ \E h \in DOMAIN pcRun : RunAsJobNotJob(h)
    \/ \E h \in DOMAIN pcRun : RunAsJob(h)
    \/ \E h \in DOMAIN pcRun : Run(h)
    \/ \E h \in DOMAIN pcRun : SpawnFails(h)
    \/ \E h \in DOMAIN pcRun : SpawnOk(h)
    \/ \E h \in DOMAIN pcRun : DieEnter(h)
    \/ \E h \in DOMAIN pcRun : DieCheck(h)
    \/ \E h \in DOMAIN pcRun : DieRelease(h)
    \/ \E h \in DOMAIN pcRun : RunReturns(h)
    \/ \E h \in DOMAIN pcRun : ProcessTerminates(h)
    \/ \E h \in DOMAIN pcRun : WaitReturns(h)
    \/ \E h \in DOMAIN pcRun : Classify(h)
    \/ \E h \in DOMAIN pcRun : InvokeCallback(h)
    \/ \E h \in DOMAIN pcRun : CloseDone(h)
    \/ \E c \in DOMAIN pcExit : ExitCall(c)
    \/ \E c \in DOMAIN pcExit : ExitEnter(c)
    \/ \E c \in DOMAIN pcExit : ExitCheck(c)
    \/ \E c \in DOMAIN pcExit : ExitSignal(c)
    \/ \E c \in DOMAIN pcExit : ExitWaitDone(c)
    \/ \E c \in DOMAIN pcExit : ExitRelease(c)
    \/ \E h \in DOMAIN pcRun : \E s \in OutputStreams : DrainFinishes(h, s)

DrainSpec == DrainInit /\ [][DrainNext]_vars

(* ------------------------------ Worker -------------------------------- *)

\* w.binaries: the members of the group [A, B, C], in registration order.
Members == {1, 2, 3}

\* The members of a group of two, [A, B].
Pair == {1, 2}

\* Handles M without callbacks of their own, h being a job iff J[h] and having
\* readiness port P[h], each with one caller of Exit(); pc is the position of
\* the goroutine that will run them.
HandlesInitOf(M, J, P, pc) ==
    /\ job = J
    /\ port = P
    /\ errorCallbacks = [h \in M |-> <<>>]
    /\ exitCallbacks = [h \in M |-> <<>>]
    /\ cmdSet = [h \in M |-> FALSE]
    /\ cmdProcess = [h \in M |-> FALSE]
    /\ processState = [h \in M |-> "nil"]
    /\ done = [h \in M |-> FALSE]
    /\ exiting = [h \in M |-> FALSE]
    /\ terminateOnce = [h \in M |-> "fresh"]
    /\ proc = [h \in M |-> "none"]
    /\ pcRun = [h \in M |-> pc]
    /\ entry = [h \in M |-> "none"]
    /\ attempts = [h \in M |-> 0]
    /\ dieErr = [h \in M |-> "nil"]
    /\ jobError = [h \in M |-> "nil"]
    /\ runResult = [h \in M |-> "unset"]
    /\ pcWatch = [h \in M |-> "none"]
    /\ waitErr = [h \in M |-> "nil"]
    /\ cbIdx = [h \in M |-> 1]
    /\ pcExit = [c \in M |-> "idle"]
    /\ exitTarget = [c \in M |-> c]
    /\ sigSent = [h \in M |-> 0]
    /\ sigDelivered = [h \in M |-> 0]
    /\ errFired = [h \in M |-> 0]
    /\ exitFired = [h \in M |-> 0]
    /\ cbLog = [h \in M |-> <<>>]
    /\ dials = [h \in M |-> 0]
    /\ dialOk = [h \in M |-> FALSE]
    /\ exitCalled = [h \in M |-> FALSE]
    /\ exitingAtDeath = [h \in M |-> FALSE]
    /\ procAtCall = [c \in M |-> "none"]
    /\ spawnFailed = [h \in M |-> FALSE]
    /\ drains = [h \in M |-> {}]
    /\ NoWorker(M)

\* State after NewWorker(name, binaries) on handles M.  pcRun is "pending"
\* until the Worker calls runBinary on the member; the Exit() calls on member c
\* are those of Worker.terminate.
GroupInitOf(M, J, P) == HandlesInitOf(M, J, P, "pending")

\* A group of daemon handles M without a readiness port.
GroupInit(M) == GroupInitOf(M, [h \in M |-> FALSE], [h \in M |-> 0])

\* Worker.Run: one goroutine per member is started, each calling runBinary;
\* Run then waits for all of them (wg.Wait).
WorkerRun ==
    /\ pcMain = "idle"
    /\ pcMain' = "wait"
    /\ pcRun' = [h \in DOMAIN pcRun |-> "dispatched"]
    /\ UNCHANGED <<drains, aliveAtCascade, sequentialMode, terminating, workerOnce, errors,
                   workerCbLog, pcUser, pcCb, pcTeardown, tdIdx, cfgVars, cmdVars,
                   done, exiting, terminateOnce, proc, entry, attempts, dieErr,
                   jobError, runResult, watchVars, callerVars, histVars>>

\* Worker.RunSequentially: w.sequentialMode = true, then the loop over the members.
WorkerRunSequentially ==
    /\ pcMain = "idle"
    /\ sequentialMode' = TRUE
    /\ pcMain' = "wait"
    /\ UNCHANGED <<drains, aliveAtCascade, terminating, workerOnce, errors, workerCbLog, pcUser,
                   pcCb, pcTeardown, tdIdx, cfgVars, cmdVars, done, exiting,
                   terminateOnce, proc, runVars, watchVars, callerVars, histVars>>

\* A loop that calls runBinary for a member without the call before it having returned.
MayRunBinary_NoWait(h) ==
    IF sequentialMode
       THEN pcMain = "wait" /\ pcRun[h] = "pending"
       ELSE pcRun[h] = "dispatched"

\* When runBinary(h) may be called: by h's goroutine once Run has started it,
\* or by the loop of RunSequentially once the calls for the members before h
\* have returned.
MayRunBinary(h) ==
    IF sequentialMode
       THEN /\ pcMain = "wait"
            /\ pcRun[h] = "pending"
            /\ \A g \in DOMAIN pcRun : g < h => pcRun[g] = "returned"
       ELSE pcRun[h] = "dispatched"

\* A runBinary that registers the OnExit closure on jobs as well.
RegistersExitClosure_Always(h) == TRUE

\* runBinary: if !binary.IsJob() { binary.OnExit(...) }
RegistersExitClosure(h) == ~job[h]

\* runBinary: binary.OnError(closure); if !binary.IsJob() { binary.OnExit(closure) };
\* binary.Run(), up to b.cmd = exec.Command(...).
runBinary(h) ==
    /\ MayRunBinary(h)
    /\ errorCallbacks' = [errorCallbacks EXCEPT ![h] = Append(@, GroupErrorCallback)]
    /\ exitCallbacks' = [exitCallbacks EXCEPT ![h] =
                            IF RegistersExitClosure(h)
                               THEN Append(@, GroupExitCallback) ELSE @]
    /\ entry' = [entry EXCEPT ![h] = "Run"]
    /\ cmdSet' = [cmdSet EXCEPT ![h] = TRUE]
    /\ pcRun' = [pcRun EXCEPT ![h] = "spawn"]
    /\ UNCHANGED <<groupVars, job, port, cmdProcess, processState, done, exiting,
                   terminateOnce, proc, attempts, dieErr, jobError, runResult,
                   watchVars, callerVars, histVars>>

\* A wait that ends as soon as one runBinary call has returned.
RunBinaryCallsDone_Any == \E h \in DOMAIN pcRun : pcRun[h] = "returned"

\* wg.Wait() of Worker.Run (the end of the loop of RunSequentially): every
\* runBinary call, and with it every binary.Run(), has returned.
RunBinaryCallsDone == \A h \in DOMAIN pcRun : pcRun[h] = "returned"

\* Worker.Run / RunSequentially returns: every runBinary call has returned.
WorkerRunReturns ==
    /\ pcMain = "wait"
    /\ RunBinaryCallsDone
    /\ pcMain' = "returned"
    /\ UNCHANGED <<drains, aliveAtCascade, sequentialMode, terminating, workerOnce, errors,
                   workerCbLog, pcUser, pcCb, pcTeardown, tdIdx, cfgVars, cmdVars,
                   done, exiting, terminateOnce, proc, runVars, watchVars,
                   callerVars, histVars>>

\* The error the closure running in h's watcher builds: "[h] encountered a
\* fatal error: ..." in the OnError closure, "[h] exited unexpectedly" in the
\* OnExit closure.  The field late is an observation: the value w.terminating
\* has when the record is built.
ClosureError(h) ==
    [member |-> h,
     kind |-> IF pcWatch[h] = "errorCallbacks" THEN "fatal" ELSE "unexpected",
     late |-> terminating]

\* The watcher of h reaches the Worker's closure c in its callback list.
AtClosure(h, c) ==
    /\ pcWatch[h] \in {"errorCallbacks", "exitCallbacks"}
    /\ cbIdx[h] <= Len(FiringList(h))
    /\ FiringList(h)[cbIdx[h]] = c
    /\ pcCb[h] = "none"

\* An OnError closure that calls Worker.die without recording the error.
ErrorClosureAppends_Never == FALSE

\* An OnError closure that records the error only if the Worker is not terminating.
ErrorClosureAppends_UnlessTerminating == ~terminating

\* The OnError closure appends before it looks at w.terminating: the append is
\* not inside the if.
ErrorClosureAppends == TRUE

\* OnError closure: w.errors = multierror.Append(w.errors, err), under errorsMutex.
GroupOnError(h) ==
    /\ AtClosure(h, GroupErrorCallback)
    /\ errors' = IF ErrorClosureAppends THEN Append(errors, ClosureError(h)) ELSE errors
    /\ cbLog' = [cbLog EXCEPT ![h] =
                    Append(@, [cb |-> GroupErrorCallback, arg |-> FiringArg(h)])]
    /\ pcCb' = [pcCb EXCEPT ![h] = "check"]
    /\ UNCHANGED <<drains, aliveAtCascade, sequentialMode, terminating, workerOnce, workerCbLog,
                   pcMain, pcUser, pcTeardown, tdIdx, cfgVars, cmdVars, done,
                   exiting, terminateOnce, proc, runVars, watchVars, callerVars,
                   sigSent, sigDelivered, errFired, exitFired, dials, dialOk,
                   exitCalled, exitingAtDeath, procAtCall, spawnFailed>>

\* A closure that does not look at w.terminating.
WorkerTerminating_Ignored == FALSE

\* The closures' read of w.terminating (a plain bool: no lock is held).
WorkerTerminating == terminating

\* OnError closure: if !w.terminating { w.die(err) }
GroupOnErrorCheck(h) ==
    /\ pcCb[h] = "check"
    /\ IF WorkerTerminating
          THEN /\ pcCb' = [pcCb EXCEPT ![h] = "none"]
               /\ cbIdx' = [cbIdx EXCEPT ![h] = @ + 1]
          ELSE /\ pcCb' = [pcCb EXCEPT ![h] = "die"]
               /\ UNCHANGED cbIdx
    /\ UNCHANGED <<drains, aliveAtCascade, sequentialMode, terminating, workerOnce, errors,
                   workerCbLog, pcMain, pcUser, pcTeardown, tdIdx, cfgVars, cmdVars,
                   done, exiting, terminateOnce, proc, runVars, pcWatch, waitErr,
                   callerVars, histVars>>

\* OnExit closure: if !w.terminating { ... }
GroupOnExit(h) ==
    /\ AtClosure(h, GroupExitCallback)
    /\ cbLog' = [cbLog EXCEPT ![h] =
                    Append(@, [cb |-> GroupExitCallback, arg |-> FiringArg(h)])]
    /\ IF WorkerTerminating
          THEN /\ cbIdx' = [cbIdx EXCEPT ![h] = @ + 1]
               /\ UNCHANGED pcCb
          ELSE /\ pcCb' = [pcCb EXCEPT ![h] = "append"]
               /\ UNCHANGED cbIdx
    /\ UNCHANGED <<drains, aliveAtCascade, sequentialMode, terminating, workerOnce, errors,
                   workerCbLog, pcMain, pcUser, pcTeardown, tdIdx, cfgVars, cmdVars,
                   done, exiting, terminateOnce, proc, runVars, pcWatch, waitErr,
                   callerVars, sigSent, sigDelivered, errFired, exitFired, dials,
                   dialOk, exitCalled, exitingAtDeath, procAtCall, spawnFailed>>

\* OnExit closure: w.errors = multierror.Append(w.errors, err), under errorsMutex.
GroupOnExitAppend(h) ==
    /\ pcCb[h] = "append"
    /\ errors' = Append(errors, ClosureError(h))
    /\ pcCb' = [pcCb EXCEPT ![h] = "die"]
    /\ UNCHANGED <<drains, aliveAtCascade, sequentialMode, terminating, workerOnce, workerCbLog,
                   pcMain, pcUser, pcTeardown, tdIdx, cfgVars, cmdVars, done,
                   exiting, terminateOnce, proc, runVars, watchVars, callerVars,
                   histVars>>

\* A sync.Once whose Do returns at once when another caller is running the body.
DoMayProceed_NoBlock(once) == TRUE

\* sync.Once.Do: a caller proceeds (to run the body, or to return because it
\* has been run) unless another caller is running the body; then it blocks.
DoMayProceed(once) == once # "running"

\* Worker.die(err): w.terminateOnce.Do(...).  The first caller of Do invokes the
\* Worker's error callbacks with err and goes on to terminate(); a caller that
\* finds the body running blocks; one that finds it finished returns, and the
\* closure with it.
WorkerDie(h) ==
    /\ pcCb[h] = "die"
    /\ DoMayProceed(workerOnce)
    /\ IF workerOnce = "fresh"
          THEN /\ workerOnce' = "running"
               /\ workerCbLog' = Append(workerCbLog, ClosureError(h))
               /\ pcCb' = [pcCb EXCEPT ![h] = "teardown"]
               /\ pcTeardown' = "terminate"
               /\ UNCHANGED cbIdx
          ELSE /\ pcCb' = [pcCb EXCEPT ![h] = "none"]
               /\ cbIdx' = [cbIdx EXCEPT ![h] = @ + 1]
               /\ UNCHANGED <<workerOnce, workerCbLog, pcTeardown>>
    /\ UNCHANGED <<drains, aliveAtCascade, sequentialMode, terminating, errors, pcMain, pcUser,
                   tdIdx, cfgVars, cmdVars, done, exiting, terminateOnce, proc,
                   runVars, pcWatch, waitErr, callerVars, histVars>>

\* A goroutine of the program calls Worker.Exit() on the running group.
WorkerExitCall ==
    /\ pcUser = "idle"
    /\ pcMain # "idle"
    /\ pcUser' = "once"
    /\ UNCHANGED <<drains, aliveAtCascade, sequentialMode, terminating, workerOnce, errors,
                   workerCbLog, pcMain, pcCb, pcTeardown, tdIdx, cfgVars, cmdVars,
                   done, exiting, terminateOnce, proc, runVars, watchVars,
                   callerVars, histVars>>

\* Worker.Exit: w.terminateOnce.Do(...), which goes on to terminate().
WorkerExitEnter ==
    /\ pcUser = "once"
    /\ DoMayProceed(workerOnce)
    /\ IF workerOnce = "fresh"
          THEN /\ workerOnce' = "running"
               /\ pcUser' = "teardown"
               /\ pcTeardown' = "terminate"
          ELSE /\ pcUser' = "returned"
               /\ UNCHANGED <<workerOnce, pcTeardown>>
    /\ UNCHANGED <<drains, aliveAtCascade, sequentialMode, terminating, errors, workerCbLog, pcMain,
                   pcCb, tdIdx, cfgVars, cmdVars, done, exiting, terminateOnce,
                   proc, runVars, watchVars, callerVars, histVars>>

\* terminate: w.terminating = true; the loop starts at i = len(w.binaries) - 1.
TerminateBegin ==
    /\ pcTeardown = "terminate"
    /\ terminating' = TRUE
    /\ tdIdx' = Cardinality(DOMAIN pcRun)
    /\ pcTeardown' = "loop"
    /\ aliveAtCascade' = IF pcUser = "teardown"
                             THEN {}
                             ELSE {h \in DOMAIN proc : proc[h] = "alive"}
    /\ UNCHANGED <<drains, sequentialMode, workerOnce, errors, workerCbLog, pcMain,
                   pcUser, pcCb, cfgVars, cmdVars, done, exiting, terminateOnce,
                   proc, runVars, watchVars, callerVars, histVars>>

\* A loop that walks w.binaries in registration order.
BinaryAt_Forward(i) == Cardinality(DOMAIN pcRun) + 1 - i

\* binary := w.binaries[i]: the loop of terminate counts i down from the last
\* member (tdIdx is i + 1, the members being numbered from 1).
BinaryAt(i) == i

\* When the loop of terminate goes on to iteration i: in sequential mode fn()
\* is called inline, so the Exit() of the iteration before has returned.
MayCallExit(i) ==
    (sequentialMode /\ i < Cardinality(DOMAIN pcRun)) =>
        pcExit[BinaryAt(i + 1)] = "returned"

\* terminate, one iteration: fn := func() { binary.Exit(); wg.Done() }, then
\* fn() in sequential mode (Exit() begins in this goroutine) or go fn().
TerminateCallExit ==
    LET m == BinaryAt(tdIdx) IN
    /\ pcTeardown = "loop"
    /\ tdIdx >= 1
    /\ MayCallExit(tdIdx)
    /\ IF sequentialMode
          THEN /\ pcExit' = [pcExit EXCEPT ![m] = "once"]
               /\ exitCalled' = [exitCalled EXCEPT ![m] = TRUE]
          ELSE /\ pcExit' = [pcExit EXCEPT ![m] = "dispatched"]
               /\ UNCHANGED exitCalled
    /\ tdIdx' = tdIdx - 1
    /\ UNCHANGED <<drains, aliveAtCascade, sequentialMode, terminating, workerOnce, errors,
                   workerCbLog, pcMain, pcUser, pcCb, pcTeardown, cfgVars, cmdVars,
                   done, exiting, terminateOnce, proc, runVars, watchVars,
                   exitTarget, sigSent, sigDelivered, errFired, exitFired, cbLog,
                   dials, dialOk, exitingAtDeath, procAtCall, spawnFailed>>

\* A goroutine started by go fn() is scheduled: its binary.Exit() begins.
ExitBegin(c) ==
    /\ pcExit[c] = "dispatched"
    /\ pcExit' = [pcExit EXCEPT ![c] = "once"]
    /\ exitCalled' = [exitCalled EXCEPT ![exitTarget[c]] = TRUE]
    /\ UNCHANGED <<groupVars, cfgVars, cmdVars, done, exiting, terminateOnce, proc,
                   runVars, watchVars, exitTarget, sigSent, sigDelivered, errFired,
                   exitFired, cbLog, dials, dialOk, exitingAtDeath, procAtCall,
                   spawnFailed>>

\* A terminate that does not wait for the Exit() calls it has started.
ExitCallsDone_NoWait == TRUE

\* wg.Wait() of terminate: wg.Done() has been called for every member, that
\* is, every fn, and the binary.Exit() in it, has returned.
ExitCallsDone == \A c \in DOMAIN pcExit : pcExit[c] = "returned"

\* terminate returns (wg.Wait() in concurrent mode): every Exit() has returned.
\* The body of w.terminateOnce.Do is over, and Worker.Exit, or Worker.die and
\* the closure that called it, return.
TerminateReturns ==
    /\ pcTeardown = "loop"
    /\ tdIdx = 0
    /\ ExitCallsDone
    /\ workerOnce' = "done"
    /\ pcTeardown' = "done"
    /\ IF pcUser = "teardown"
          THEN /\ pcUser' = "returned"
               /\ UNCHANGED <<pcCb, cbIdx>>
          ELSE /\ pcCb' = [h \in DOMAIN pcCb |->
                              IF pcCb[h] = "teardown" THEN "none" ELSE pcCb[h]]
               /\ cbIdx' = [h \in DOMAIN cbIdx |->
                               IF pcCb[h] = "teardown" THEN cbIdx[h] + 1 ELSE cbIdx[h]]
               /\ UNCHANGED pcUser
    /\ UNCHANGED <<drains, aliveAtCascade, sequentialMode, terminating, errors, workerCbLog, pcMain,
                   tdIdx, cfgVars, cmdVars, done, exiting, terminateOnce, proc,
                   runVars, pcWatch, waitErr, callerVars, histVars>>

\* The members whose process has terminated without a SIGTERM having reached it.
SelfExited == {h \in DOMAIN proc : proc[h] \notin {"none", "alive"} /\ sigDelivered[h] = 0}

\* The members that have failed: the spawn failed, or the process terminated
\* on its own (a job that exits with status 0 has completed, not failed).
Failed ==
    {h \in SelfExited : ~(job[h] /\ proc[h] = "exit0")}
        \cup {h \in DOMAIN proc : spawnFailed[h]}

\* cmd.Start() of member h fails, which counts as one of the member failures.
MemberSpawnFails(h) ==
    /\ Cardinality(Failed) < MaxMemberFailures
    /\ SpawnFails(h)

\* The process of member h terminates: killed by the SIGTERM of an Exit() or
\* of die, or on its own (in any of the three ways), which counts as one of
\* the member failures unless it is a job that exits with status 0.
MemberTerminates(h) ==
    /\ ProcessTerminates(h)
    /\ sigDelivered[h] > 0 => proc'[h] = "signaled"
    /\ (sigDelivered[h] = 0 /\ Cardinality(Failed) >= MaxMemberFailures) =>
           (job[h] /\ proc'[h] = "exit0")

\* A group of three started with RunSequentially.
SeqInit == GroupInit(Members)

SeqNext ==
    \/ WorkerRunSequentially
    \/ \E h \in DOMAIN pcRun : runBinary(h)
    \/ \E h \in DOMAIN pcRun : MemberSpawnFails(h)
    \/ \E h \in DOMAIN pcRun : SpawnOk(h)
    \/ \E h \in DOMAIN pcRun : DieEnter(h)
    \/ \E h \in DOMAIN pcRun : DieCheck(h)
    \/ \E h \in DOMAIN pcRun : DieRelease(h)
    \/ \E h \in DOMAIN pcRun : RunReturns(h)
    \/ WorkerRunReturns
    \/ \E h \in DOMAIN pcRun : MemberTerminates(h)
    \/ \E h \in DOMAIN pcRun : WaitReturns(h)
    \/ \E h \in DOMAIN pcRun : Classify(h)
    \/ \E h \in DOMAIN pcRun : GroupOnError(h)
    \/ \E h \in DOMAIN pcRun : GroupOnErrorCheck(h)
    \/ \E h \in DOMAIN pcRun : GroupOnExit(h)
    \/ \E h \in DOMAIN pcRun : GroupOnExitAppend(h)
    \/ \E h \in DOMAIN pcRun : WorkerDie(h)
    \/ \E h \in DOMAIN pcRun : CloseDone(h)
    \/ WorkerExitCall
    \/ WorkerExitEnter
    \/ TerminateBegin
    \/ TerminateCallExit
    \/ \E c \in DOMAIN pcExit : ExitEnter(c)
    \/ \E c \in DOMAIN pcExit : ExitCheck(c)
    \/ \E c \in DOMAIN pcExit : ExitSignal(c)
    \/ \E c \in DOMAIN pcExit : ExitWaitDone(c)
    \/ \E c \in DOMAIN pcExit : ExitRelease(c)
    \/ TerminateReturns

SeqSpec == SeqInit /\ [][SeqNext]_vars

\* A group of two started with Run.
ConcInit == GroupInit(Pair)

ConcNext ==
    \/ WorkerRun
    \/ \E h \in DOMAIN pcRun : runBinary(h)
    \/ \E h \in DOMAIN pcRun : MemberSpawnFails(h)
    \/ \E h \in DOMAIN pcRun : SpawnOk(h)
    \/ \E h \in DOMAIN pcRun : DieEnter(h)
    \/ \E h \in DOMAIN pcRun : DieCheck(h)
    \/ \E h \in DOMAIN pcRun : DieRelease(h)
    \/ \E h \in DOMAIN pcRun : RunReturns(h)
    \/ WorkerRunReturns
    \/ \E h \in DOMAIN pcRun : MemberTerminates(h)
    \/ \E h \in DOMAIN pcRun : WaitReturns(h)
    \/ \E h \in DOMAIN pcRun : Classify(h)
    \/ \E h \in DOMAIN pcRun : GroupOnError(h)
    \/ \E h \in DOMAIN pcRun : GroupOnErrorCheck(h)
    \/ \E h \in DOMAIN pcRun : GroupOnExit(h)
    \/ \E h \in DOMAIN pcRun : GroupOnExitAppend(h)
    \/ \E h \in DOMAIN pcRun : WorkerDie(h)
    \/ \E h \in DOMAIN pcRun : CloseDone(h)
    \/ WorkerExitCall
    \/ WorkerExitEnter
    \/ TerminateBegin
    \/ TerminateCallExit
    \/ \E c \in DOMAIN pcExit : ExitBegin(c)
    \/ \E c \in DOMAIN pcExit : ExitEnter(c)
    \/ \E c \in DOMAIN pcExit : ExitCheck(c)
    \/ \E c \in DOMAIN pcExit : ExitSignal(c)
    \/ \E c \in DOMAIN pcExit : ExitWaitDone(c)
    \/ \E c \in DOMAIN pcExit : ExitRelease(c)
    \/ TerminateReturns

ConcSpec == ConcInit /\ [][ConcNext]_vars

\* A mixed group of two started with Run: member 1 is a daemon with a
\* readiness port, member 2 a job.
MixedInit ==
    GroupInitOf(Pair, [h \in Pair |-> h = 2], [h \in Pair |-> IF h = 1 THEN SomePort ELSE 0])

\* In the mixed group the process of the daemon stays up until a SIGTERM
\* reaches it; the process of the job ends on its own, in any of the three
\* ways, unless a SIGTERM kills it first.  The daemon's exit callbacks then
\* run only during a teardown, so the append step of the OnExit closure is not
\* part of MixedNext.
MixedTerminates(h) ==
    /\ ProcessTerminates(h)
    /\ sigDelivered[h] > 0 => proc'[h] = "signaled"
    /\ sigDelivered[h] = 0 => job[h]

MixedNext ==
    \/ WorkerRun
    \/ \E h \in DOMAIN pcRun : runBinary(h)
    \/ \E h \in DOMAIN pcRun : SpawnFails(h)
    \/ \E h \in DOMAIN pcRun : SpawnOk(h)
    \/ \E h \in DOMAIN pcRun : DialFails(h)
    \/ \E h \in DOMAIN pcRun : DialSucceeds(h)
    \/ \E h \in DOMAIN pcRun : PortTimeout(h)
    \/ \E h \in DOMAIN pcRun : DieEnter(h)
    \/ \E h \in DOMAIN pcRun : DieCheck(h)
    \/ \E h \in DOMAIN pcRun : DieSignal(h)
    \/ \E h \in DOMAIN pcRun : DieWaitDone(h)
    \/ \E h \in DOMAIN pcRun : DieRelease(h)
    \/ \E h \in DOMAIN pcRun : RunReturns(h)
    \/ WorkerRunReturns
    \/ \E h \in DOMAIN pcRun : MixedTerminates(h)
    \/ \E h \in DOMAIN pcRun : WaitReturns(h)
    \/ \E h \in DOMAIN pcRun : Classify(h)
    \/ \E h \in DOMAIN pcRun : GroupOnError(h)
    \/ \E h \in DOMAIN pcRun : GroupOnErrorCheck(h)
    \/ \E h \in DOMAIN pcRun : GroupOnExit(h)
    \/ \E h \in DOMAIN pcRun : WorkerDie(h)
    \/ \E h \in DOMAIN pcRun : CloseDone(h)
    \/ TerminateBegin
    \/ TerminateCallExit
    \/ \E c \in DOMAIN pcExit : ExitBegin(c)
    \/ \E c \in DOMAIN pcExit : ExitEnter(c)
    \/ \E c \in DOMAIN pcExit : ExitCheck(c)
    \/ \E c \in DOMAIN pcExit : ExitSignal(c)
    \/ \E c \in DOMAIN pcExit : ExitWaitDone(c)
    \/ \E c \in DOMAIN pcExit : ExitRelease(c)
    \/ TerminateReturns

MixedSpec == MixedInit /\ [][MixedNext]_vars

\* The program registers, before the group is run, an exit callback on member
\* h that calls Worker.Exit(): binary.OnExit(func() { w.Exit() }).
RegisterExitingCallback(h) ==
    /\ pcMain = "idle"
    /\ exitCallbacks[h] = <<>>
    /\ exitCallbacks' = [exitCallbacks EXCEPT ![h] = <<ExitingCallback>>]
    /\ UNCHANGED <<groupVars, job, port, errorCallbacks, cmdVars, done, exiting,
                   terminateOnce, proc, runVars, watchVars, callerVars, histVars>>

\* The watcher of h invokes the callback that calls Worker.Exit().
CallbackCallsWorkerExit(h) ==
    /\ AtClosure(h, ExitingCallback)
    /\ cbLog' = [cbLog EXCEPT ![h] =
                    Append(@, [cb |-> ExitingCallback, arg |-> FiringArg(h)])]
    /\ pcCb' = [pcCb EXCEPT ![h] = "exitOnce"]
    /\ UNCHANGED <<drains, aliveAtCascade, sequentialMode, terminating, workerOnce, errors,
                   workerCbLog, pcMain, pcUser, pcTeardown, tdIdx, cfgVars, cmdVars,
                   done, exiting, terminateOnce, proc, runVars, watchVars,
                   callerVars, sigSent, sigDelivered, errFired, exitFired, dials,
                   dialOk, exitCalled, exitingAtDeath, procAtCall, spawnFailed>>

\* Worker.Exit() called by a callback running in the watcher of h:
\* w.terminateOnce.Do(...).  The first caller of Do runs terminate() in the
\* watcher; a caller that finds the body running blocks (also when the body is
\* running in its own goroutine: sync.Once is not reentrant); one that finds
\* it finished returns, and the callback with it.
CallbackExitEnter(h) ==
    /\ pcCb[h] = "exitOnce"
    /\ DoMayProceed(workerOnce)
    /\ IF workerOnce = "fresh"
          THEN /\ workerOnce' = "running"
               /\ pcCb' = [pcCb EXCEPT ![h] = "teardown"]
               /\ pcTeardown' = "terminate"
               /\ UNCHANGED cbIdx
          ELSE /\ pcCb' = [pcCb EXCEPT ![h] = "none"]
               /\ cbIdx' = [cbIdx EXCEPT ![h] = @ + 1]
               /\ UNCHANGED <<workerOnce, pcTeardown>>
    /\ UNCHANGED <<drains, aliveAtCascade, sequentialMode, terminating, errors, workerCbLog,
                   pcMain, pcUser, tdIdx, cfgVars, cmdVars, done, exiting,
                   terminateOnce, proc, runVars, pcWatch, waitErr, callerVars,
                   histVars>>

\* Worker.die(err) on a Worker whose error callback, registered with
\* Worker.OnError, calls Worker.Exit(): the first caller of Do invokes the
\* callback inside the body of w.terminateOnce.Do, and the callback calls
\* w.terminateOnce.Do again.
WorkerDieCallsExit(h) ==
    /\ pcCb[h] = "die"
    /\ DoMayProceed(workerOnce)
    /\ IF workerOnce = "fresh"
          THEN /\ workerOnce' = "running"
               /\ workerCbLog' = Append(workerCbLog, ClosureError(h))
               /\ pcCb' = [pcCb EXCEPT ![h] = "exitOnce"]
               /\ UNCHANGED cbIdx
          ELSE /\ pcCb' = [pcCb EXCEPT ![h] = "none"]
               /\ cbIdx' = [cbIdx EXCEPT ![h] = @ + 1]
               /\ UNCHANGED <<workerOnce, workerCbLog>>
    /\ UNCHANGED <<drains, aliveAtCascade, sequentialMode, terminating, errors, pcMain, pcUser,
                   pcTeardown, tdIdx, cfgVars, cmdVars, done, exiting, terminateOnce,
                   proc, runVars, pcWatch, waitErr, callerVars, histVars>>

\* A group of two daemons started with Run, whose callbacks call Worker.Exit():
\* the error callback of the Worker, and an exit callback the program may
\* register on a member.
ReentrantInit == GroupInit(Pair)

ReentrantNext ==
    \/ \E h \in DOMAIN pcRun : RegisterExitingCallback(h)
    \/ WorkerRun
    \/ \E h \in DOMAIN pcRun : runBinary(h)
    \/ \E h \in DOMAIN pcRun : SpawnOk(h)
    \/ \E h \in DOMAIN pcRun : RunReturns(h)
    \/ WorkerRunReturns
    \/ \E h \in DOMAIN pcRun : MemberTerminates(h)
    \/ \E h \in DOMAIN pcRun : WaitReturns(h)
    \/ \E h \in DOMAIN pcRun : Classify(h)
    \/ \E h \in DOMAIN pcRun : CallbackCallsWorkerExit(h)
    \/ \E h \in DOMAIN pcRun : CallbackExitEnter(h)
    \/ \E h \in DOMAIN pcRun : GroupOnError(h)
    \/ \E h \in DOMAIN pcRun : GroupOnErrorCheck(h)
    \/ \E h \in DOMAIN pcRun : GroupOnExit(h)
    \/ \E h \in DOMAIN pcRun : GroupOnExitAppend(h)
    \/ \E h \in DOMAIN pcRun : WorkerDieCallsExit(h)
    \/ \E h \in DOMAIN pcRun : CloseDone(h)
    \/ WorkerExitCall
    \/ WorkerExitEnter
    \/ TerminateBegin
    \/ TerminateCallExit
    \/ \E c \in DOMAIN pcExit : ExitBegin(c)
    \/ \E c \in DOMAIN pcExit : ExitEnter(c)
    \/ \E c \in DOMAIN pcExit : ExitCheck(c)
    \/ \E c \in DOMAIN pcExit : ExitSignal(c)
    \/ \E c \in DOMAIN pcExit : ExitWaitDone(c)
    \/ \E c \in DOMAIN pcExit : ExitRelease(c)
    \/ TerminateReturns

ReentrantSpec == ReentrantInit /\ [][ReentrantNext]_vars

\* A group of two daemons started with Run in which every member's process
\* may end on its own, in any of the three ways, so that two members can fail
\* at the same time; cmd.Start() succeeds and nothing calls Worker.Exit().
RaceInit == GroupInit(Pair)

\* The process of member h ends; once a SIGTERM has reached it, by that signal.
RaceTerminates(h) ==
    /\ ProcessTerminates(h)
    /\ sigDelivered[h] > 0 => proc'[h] = "signaled"

RaceNext ==
    \/ WorkerRun
    \/ \E h \in DOMAIN pcRun : runBinary(h)
    \/ \E h \in DOMAIN pcRun : SpawnOk(h)
    \/ \E h \in DOMAIN pcRun : RunReturns(h)
    \/ WorkerRunReturns
    \/ \E h \in DOMAIN pcRun : RaceTerminates(h)
    \/ \E h \in DOMAIN pcRun : WaitReturns(h)
    \/ \E h \in DOMAIN pcRun : Classify(h)
    \/ \E h \in DOMAIN pcRun : GroupOnError(h)
    \/ \E h \in DOMAIN pcRun : GroupOnErrorCheck(h)
    \/ \E h \in DOMAIN pcRun : GroupOnExit(h)
    \/ \E h \in DOMAIN pcRun : GroupOnExitAppend(h)
    \/ \E h \in DOMAIN pcRun : WorkerDie(h)
    \/ \E h \in DOMAIN pcRun : CloseDone(h)
    \/ TerminateBegin
    \/ TerminateCallExit
    \/ \E c \in DOMAIN pcExit : ExitBegin(c)
    \/ \E c \in DOMAIN pcExit : ExitEnter(c)
    \/ \E c \in DOMAIN pcExit : ExitCheck(c)
    \/ \E c \in DOMAIN pcExit : ExitSignal(c)
    \/ \E c \in DOMAIN pcExit : ExitWaitDone(c)
    \/ \E c \in DOMAIN pcExit : ExitRelease(c)
    \/ TerminateReturns

RaceSpec == RaceInit /\ [][RaceNext]_vars

(* ------------- a group whose members carry user callbacks ------------- *)

\* The program calls b.OnError(callback).OnExit(callback) on member h before
\* the group is run.
UserRegisters(h) ==
    /\ pcMain = "idle"
    /\ Len(errorCallbacks[h]) < MaxUserCallbacks
    /\ errorCallbacks' = [errorCallbacks EXCEPT ![h] = Append(@, <<"user", Len(@) + 1>>)]
    /\ exitCallbacks' = [exitCallbacks EXCEPT ![h] = Append(@, <<"user", Len(@) + 1>>)]
    /\ UNCHANGED <<groupVars, job, port, cmdVars, done, exiting, terminateOnce, proc,
                   runVars, watchVars, callerVars, histVars>>

\* The process of member h ends.  Member 1 may end on its own, in any of the
\* three ways; member 2 stays up until a SIGTERM reaches it.
OrderTerminates(h) ==
    /\ ProcessTerminates(h)
    /\ sigDelivered[h] > 0 => proc'[h] = "signaled"
    /\ sigDelivered[h] = 0 => h = 1

\* A group of two daemons started with Run, with callbacks of the program
\* registered on the members beforehand.
OrderInit == GroupInit(Pair)

OrderNext ==
    \/ \E h \in DOMAIN pcRun : UserRegisters(h)
    \/ WorkerRun
    \/ \E h \in DOMAIN pcRun : runBinary(h)
    \/ \E h \in DOMAIN pcRun : SpawnOk(h)
    \/ \E h \in DOMAIN pcRun : RunReturns(h)
    \/ WorkerRunReturns
    \/ \E h \in DOMAIN pcRun : OrderTerminates(h)
    \/ \E h \in DOMAIN pcRun : WaitReturns(h)
    \/ \E h \in DOMAIN pcRun : Classify(h)
    \/ \E h \in DOMAIN pcRun : InvokeCallback(h)
    \/ \E h \in DOMAIN pcRun : GroupOnError(h)
    \/ \E h \in DOMAIN pcRun : GroupOnErrorCheck(h)
    \/ \E h \in DOMAIN pcRun : GroupOnExit(h)
    \/ \E h \in DOMAIN pcRun : GroupOnExitAppend(h)
    \/ \E h \in DOMAIN pcRun : WorkerDie(h)
    \/ \E h \in DOMAIN pcRun : CloseDone(h)
    \/ TerminateBegin
    \/ TerminateCallExit
    \/ \E c \in DOMAIN pcExit : ExitBegin(c)
    \/ \E c \in DOMAIN pcExit : ExitEnter(c)
    \/ \E c \in DOMAIN pcExit : ExitCheck(c)
    \/ \E c \in DOMAIN pcExit : ExitSignal(c)
    \/ \E c \in DOMAIN pcExit : ExitWaitDone(c)
    \/ \E c \in DOMAIN pcExit : ExitRelease(c)
    \/ TerminateReturns

OrderSpec == OrderInit /\ [][OrderNext]_vars

(* ---------------------- the postgres test Server ---------------------- *)

\* The three job handles NewServer creates: initdb, pg_ctl start (the only one
\* with a readiness port) and pg_ctl stop.
InitJob == 1
StartJob == 2
StopJob == 3
ServerJobs == {InitJob, StartJob, StopJob}

\* State after NewServer(config).  pcMain is the position of the goroutine in
\* Server.Run, pcUser its position in Server.Shutdown.
ServerInit ==
    HandlesInitOf(ServerJobs, [h \in ServerJobs |-> TRUE],
                  [h \in ServerJobs |-> IF h = StartJob THEN SomePort ELSE 0], "idle")

\* Server.Run() is called.
ServerRun ==
    /\ pcMain = "idle"
    /\ pcUser = "idle"
    /\ pcMain' = "initJob"
    /\ UNCHANGED <<drains, aliveAtCascade, sequentialMode, terminating, workerOnce, errors,
                   workerCbLog, pcUser, pcCb, pcTeardown, tdIdx, cfgVars, cmdVars, done,
                   exiting, terminateOnce, proc, runVars, watchVars, callerVars, histVars>>

\* Server.Run: s.initJob.RunAsJob()
ServerRunsInitJob ==
    /\ pcMain = "initJob"
    /\ RunAsJob(InitJob)

\* if err := s.initJob.RunAsJob(); err != nil { return error }
ServerInitJobReturns ==
    /\ pcMain = "initJob"
    /\ pcRun[InitJob] = "returned"
    /\ pcMain' = IF runResult[InitJob] # "nil" THEN "returnedErr" ELSE "files"
    /\ UNCHANGED <<drains, aliveAtCascade, sequentialMode, terminating, workerOnce, errors,
                   workerCbLog, pcUser, pcCb, pcTeardown, tdIdx, cfgVars, cmdVars, done,
                   exiting, terminateOnce, proc, runVars, watchVars, callerVars, histVars>>

\* writeConfigToDisk() and createSocketDirectory(): either fails, and Run
\* returns an error, or both succeed.
ServerWritesFiles ==
    /\ pcMain = "files"
    /\ pcMain' \in {"returnedErr", "startJob"}
    /\ UNCHANGED <<drains, aliveAtCascade, sequentialMode, terminating, workerOnce, errors,
                   workerCbLog, pcUser, pcCb, pcTeardown, tdIdx, cfgVars, cmdVars, done,
                   exiting, terminateOnce, proc, runVars, watchVars, callerVars, histVars>>

\* Server.Run: s.startJob.RunAsJob()
ServerRunsStartJob ==
    /\ pcMain = "startJob"
    /\ RunAsJob(StartJob)

\* if err := s.startJob.RunAsJob(); err != nil { return error }; return nil
ServerStartJobReturns ==
    /\ pcMain = "startJob"
    /\ pcRun[StartJob] = "returned"
    /\ pcMain' = IF runResult[StartJob] # "nil" THEN "returnedErr" ELSE "returnedNil"
    /\ UNCHANGED <<drains, aliveAtCascade, sequentialMode, terminating, workerOnce, errors,
                   workerCbLog, pcUser, pcCb, pcTeardown, tdIdx, cfgVars, cmdVars, done,
                   exiting, terminateOnce, proc, runVars, watchVars, callerVars, histVars>>

\* Server.Shutdown() is called, by the goroutine that called Run() (or did not).
ServerShutdown ==
    /\ pcUser = "idle"
    /\ pcMain \in {"idle", "returnedErr", "returnedNil"}
    /\ pcUser' = "stopJob"
    /\ UNCHANGED <<drains, aliveAtCascade, sequentialMode, terminating, workerOnce, errors,
                   workerCbLog, pcMain, pcCb, pcTeardown, tdIdx, cfgVars, cmdVars, done,
                   exiting, terminateOnce, proc, runVars, watchVars, callerVars, histVars>>

\* Server.Shutdown: s.stopJob.RunAsJob()
ServerRunsStopJob ==
    /\ pcUser = "stopJob"
    /\ RunAsJob(StopJob)

\* if err := s.stopJob.RunAsJob(); err != nil { return error }
ServerStopJobReturns ==
    /\ pcUser = "stopJob"
    /\ pcRun[StopJob] = "returned"
    /\ pcUser' = IF runResult[StopJob] # "nil" THEN "returnedErr" ELSE "exits"
    /\ UNCHANGED <<drains, aliveAtCascade, sequentialMode, terminating, workerOnce, errors,
                   workerCbLog, pcMain, pcCb, pcTeardown, tdIdx, cfgVars, cmdVars, done,
                   exiting, terminateOnce, proc, runVars, watchVars, callerVars, histVars>>

\* s.stopJob.Exit(); s.startJob.Exit(); s.initJob.Exit(): one after the other,
\* each called when the one before has returned.
ShutdownMayExit(h) ==
    /\ pcExit[h] = "idle"
    /\ \A g \in ServerJobs : g > h => pcExit[g] = "returned"

\* Server.Shutdown calls Exit() on handle h.
ServerCallsExit(h) ==
    /\ pcUser = "exits"
    /\ ShutdownMayExit(h)
    /\ pcExit' = [pcExit EXCEPT ![h] = "once"]
    /\ exitCalled' = [exitCalled EXCEPT ![h] = TRUE]
    /\ UNCHANGED <<groupVars, cfgVars, cmdVars, done, exiting, terminateOnce, proc, runVars,
                   watchVars, exitTarget, sigSent, sigDelivered, errFired, exitFired,
                   cbLog, dials, dialOk, exitingAtDeath, procAtCall, spawnFailed>>

\* The three Exit() calls have returned: os.RemoveAll fails or not, and
\* Shutdown returns.
ServerShutdownReturns ==
    /\ pcUser = "exits"
    /\ \A h \in ServerJobs : pcExit[h] = "returned"
    /\ pcUser' \in {"returnedErr", "returnedNil"}
    /\ UNCHANGED <<drains, aliveAtCascade, sequentialMode, terminating, workerOnce, errors,
                   workerCbLog, pcMain, pcCb, pcTeardown, tdIdx, cfgVars, cmdVars, done,
                   exiting, terminateOnce, proc, runVars, watchVars, callerVars, histVars>>

ServerNext ==
    \/ ServerRun
    \/ ServerRunsInitJob
    \/ ServerInitJobReturns
    \/ ServerWritesFiles
    \/ ServerRunsStartJob
    \/ ServerStartJobReturns
    \/ ServerShutdown
    \/ ServerRunsStopJob
    \/ ServerStopJobReturns
    \/ \E h \in ServerJobs : ServerCallsExit(h)
    \/ ServerShutdownReturns
    \/ \E h \in DOMAIN pcRun : SpawnFails(h)
    \/ \E h \in DOMAIN pcRun : SpawnOk(h)
    \/ \E h \in DOMAIN pcRun : DialFails(h)
    \/ \E h \in DOMAIN pcRun : DialSucceeds(h)
    \/ \E h \in DOMAIN pcRun : PortTimeout(h)
    \/ \E h \in DOMAIN pcRun : DieEnter(h)
    \/ \E h \in DOMAIN pcRun : DieCheck(h)
    \/ \E h \in DOMAIN pcRun : DieSignal(h)
    \/ \E h \in DOMAIN pcRun : DieWaitDone(h)
    \/ \E h \in DOMAIN pcRun : DieRelease(h)
    \/ \E h \in DOMAIN pcRun : RunReturns(h)
    \/ \E h \in DOMAIN pcRun : ProcessTerminates(h)
    \/ \E h \in DOMAIN pcRun : WaitReturns(h)
    \/ \E h \in DOMAIN pcRun : Classify(h)
    \/ \E h \in DOMAIN pcRun : InvokeCallback(h)
    \/ \E h \in DOMAIN pcRun : CloseDone(h)
    \/ \E c \in DOMAIN pcExit : ExitEnter(c)
    \/ \E c \in DOMAIN pcExit : ExitCheck(c)
    \/ \E c \in DOMAIN pcExit : ExitSignal(c)
    \/ \E c \in DOMAIN pcExit : ExitWaitDone(c)
    \/ \E c \in DOMAIN pcExit : ExitRelease(c)

ServerSpec == ServerInit /\ [][ServerNext]_vars

(* ------------------------------ claims -------------------------------- *)

\* The callbacks invoked so far, in order of invocation.
LoggedCallbacks(h) == [i \in 1..Len(cbLog[h]) |-> cbLog[h][i].cb]

\* The arguments they were invoked with.
LoggedArgs(h) == {cbLog[h][i].arg : i \in 1..Len(cbLog[h])}

\* C1: for a handle whose process is running, concurrent or repeated Exit()
\* calls send exactly one SIGTERM, and each of them returns only after the
\* process has exited and b.done is closed.
C1_ExitSignalsOnceAndWaits ==
    \A c \in DOMAIN pcExit :
        LET h == exitTarget[c] IN
        /\ sigSent[h] <= 1
        /\ (pcExit[c] = "returned" /\ procAtCall[c] = "alive") =>
              /\ sigSent[h] = 1
              /\ proc[h] # "alive"
              /\ done[h]

\* C2: in one run of a handle, exactly one of the two callback classes fires,
\* exactly once: never both, never one of them twice, and, once the run is over
\* (Run() has returned and the spawn failed or the exit-watcher has finished),
\* never neither.
C2_ExactlyOneClassFires ==
    \A h \in DOMAIN job :
        /\ errFired[h] + exitFired[h] <= 1
        /\ (pcRun[h] = "returned" /\ (spawnFailed[h] \/ pcWatch[h] = "finished")) =>
              errFired[h] + exitFired[h] = 1

\* C3: when the readiness port never accepts a connection (here: no Exit() is
\* called and the process is alive when die() signals it), Run() makes exactly
\* 40 attempts, terminates the process, and the error callbacks fire exactly
\* once with the 'failed to open port' error, no exit callback firing.
C3_ReadinessTimeoutFiresPortError ==
    \A h \in DOMAIN job :
        (/\ dieErr[h] = "portErr"
         /\ ~exitCalled[h]
         /\ sigDelivered[h] = 1
         /\ pcRun[h] = "returned") =>
            /\ dials[h] = portCheckMaxAttempts
            /\ ~dialOk[h]
            /\ proc[h] # "alive"
            /\ errFired[h] = 1
            /\ exitFired[h] = 0
            /\ LoggedCallbacks(h) = errorCallbacks[h]
            /\ LoggedArgs(h) \subseteq {"portErr"}

\* C4: when spawning fails, Run() returns at once, no exit-watcher is created,
\* and the error callbacks are fired with the spawn error.
C4_SpawnFailureFiresError ==
    \A h \in DOMAIN job :
        (spawnFailed[h] /\ pcRun[h] = "returned") =>
            /\ pcWatch[h] = "none"
            /\ proc[h] = "none"
            /\ errFired[h] = 1
            /\ LoggedCallbacks(h) = errorCallbacks[h]
            /\ LoggedArgs(h) \subseteq {"spawnErr"}

\* C5: RunAsJob() on a job returns a non-nil error whenever the run failed (the
\* spawn failed, the readiness port timed out, or the process ended with a wait
\* error and Exit() was never called) and nil only when it did not; on a handle
\* that is not a job it returns an error and spawns nothing.
C5_RunAsJobReportsFailure ==
    \A h \in DOMAIN job :
        (entry[h] = "RunAsJob" /\ pcRun[h] = "returned") =>
            IF job[h]
               THEN /\ (\/ spawnFailed[h]
                        \/ dieErr[h] = "portErr"
                        \/ waitErr[h] # "nil" /\ ~exitCalled[h]) => runResult[h] # "nil"
                    /\ runResult[h] # "nil" =>
                          (spawnFailed[h] \/ dieErr[h] = "portErr" \/ waitErr[h] # "nil")
               ELSE /\ runResult[h] = "notJobErr"
                    /\ ~cmdSet[h]
                    /\ proc[h] = "none"

\* C6: a job-mode handle whose process exits with status 0, and on which Exit()
\* was never called, fires no error callbacks and fires its exit callbacks
\* exactly once: once the watcher has finished, runExitCallbacks has run once
\* and every exit callback has been invoked once.
C6_JobCleanExitFiresExitOnce ==
    \A h \in DOMAIN job :
        (job[h] /\ proc[h] = "exit0" /\ ~exitCalled[h]) =>
            /\ errFired[h] = 0
            /\ exitFired[h] <= 1
            /\ pcWatch[h] = "finished" =>
                  /\ exitFired[h] = 1
                  /\ LoggedCallbacks(h) = exitCallbacks[h]

C6_Witness ==
    \E h \in DOMAIN job :
        /\ job[h] /\ proc[h] = "exit0" /\ ~exitCalled[h]
        /\ pcWatch[h] = "finished" /\ exitFired[h] = 1
        /\ Len(cbLog[h]) = MaxUserCallbacks

\* C7: a job-mode handle whose process exits with a nonzero status, and on
\* which Exit() was never called, fires no exit callbacks and fires its error
\* callbacks exactly once, each receiving the error of cmd.Wait().
C7_JobFailureFiresErrorOnce ==
    \A h \in DOMAIN job :
        (job[h] /\ proc[h] = "exitN" /\ ~exitCalled[h]) =>
            /\ exitFired[h] = 0
            /\ errFired[h] <= 1
            /\ LoggedArgs(h) \subseteq {"waitErr"}
            /\ pcWatch[h] = "finished" =>
                  /\ errFired[h] = 1
                  /\ LoggedCallbacks(h) = errorCallbacks[h]

C7_Witness ==
    \E h \in DOMAIN job :
        /\ job[h] /\ proc[h] = "exitN" /\ ~exitCalled[h]
        /\ pcWatch[h] = "finished" /\ errFired[h] = 1
        /\ LoggedArgs(h) = {"waitErr"}

\* C8: if b.exiting had been set by Exit() when the process terminated, the
\* exit is classified as expected whatever the exit status or wait error: no
\* error callback fires, and the exit callbacks are the class that fires.
C8_ExitingMeansExpected ==
    \A h \in DOMAIN job :
        (proc[h] \in {"exit0", "exitN", "signaled"} /\ exitingAtDeath[h]) =>
            /\ errFired[h] = 0
            /\ pcWatch[h] \in {"exitCallbacks", "finished"} => exitFired[h] = 1

C8_Witness ==
    \E h \in DOMAIN job :
        /\ proc[h] \in {"exitN", "signaled"} /\ exitingAtDeath[h]
        /\ pcWatch[h] = "finished" /\ exitFired[h] = 1

\* C9: whenever Exit() returns on a handle that was started, b.done is closed:
\* the process has exited and the watcher has run every callback.
C9_ExitReturnsAfterDone ==
    \A c \in DOMAIN pcExit :
        LET h == exitTarget[c] IN
        (pcExit[c] = "returned" /\ procAtCall[c] # "none") =>
            /\ done[h]
            /\ proc[h] # "alive"
            /\ pcWatch[h] = "finished"

\* C10: for a job-mode handle whose process was spawned, Run() has returned only
\* if the process has exited, the callbacks have all run and b.done is closed.
C10_JobRunReturnsAfterCompletion ==
    \A h \in DOMAIN job :
        (job[h] /\ cmdProcess[h] /\ pcRun[h] = "returned") =>
            /\ proc[h] # "alive"
            /\ pcWatch[h] = "finished"
            /\ done[h]
            /\ Len(cbLog[h]) =
                  IF errFired[h] = 1 THEN Len(errorCallbacks[h]) ELSE Len(exitCallbacks[h])

C10_Witness ==
    \E h \in DOMAIN job :
        /\ job[h] /\ cmdProcess[h] /\ pcRun[h] = "returned"
        /\ done[h] /\ Len(cbLog[h]) > 0

\* C11: b.done is closed only after the process has exited and both line
\* readers (stdout and stderr) have finished: it is never closed while a
\* reader is still running.
C11_DoneAfterDrains ==
    \A h \in DOMAIN job :
        done[h] => (proc[h] # "alive" /\ drains[h] = {})

\* binary.Exit() has been called on member c by the goroutine that runs it.
ExitBegun(c) == pcExit[c] \notin {"idle", "dispatched"}

\* C12 (as claimed): in every teardown, for members i < j, the Exit() of member
\* j has begun, and has sent its termination signal if it sends one, before
\* the Exit() of member i begins.
C12_ExitBeginsInReverseOrder ==
    \A i, j \in DOMAIN pcExit :
        (i < j /\ ExitBegun(i)) =>
            (ExitBegun(j) /\ pcExit[j] \notin {"once", "check", "signal"})

\* C12 (amended): in a group started with Run(), terminate hands the Exit()
\* calls to goroutines in strict reverse registration order: whenever the call
\* for member i has been dispatched, the call for every later member j has
\* been dispatched too (the calls themselves may begin in any order).
C12_DispatchedInReverseOrder ==
    \A i, j \in DOMAIN pcExit :
        (i < j /\ pcExit[i] # "idle") => pcExit[j] # "idle"

C12_Witness ==
    \E i, j \in DOMAIN pcExit :
        /\ i < j /\ ~sequentialMode
        /\ ExitBegun(i)
        /\ pcExit[j] = "dispatched"

\* C13: in a group started with RunSequentially, teardown calls Exit() on the
\* members in reverse order, and when the Exit() of member i begins, the
\* Exit() of every later member j has returned and the process of j is not
\* running.
C13_SequentialTeardownAwaitsEach ==
    sequentialMode =>
        \A i, j \in DOMAIN pcExit :
            (i < j /\ ExitBegun(i)) =>
                (pcExit[j] = "returned" /\ proc[j] # "alive")

\* The goroutines that are running the body of w.terminateOnce.Do.
TeardownRunners ==
    {h \in DOMAIN pcCb : pcCb[h] = "teardown"} \cup
        (IF pcUser = "teardown" THEN {"user"} ELSE {})

\* C14: at most one teardown is executed per group.  Worker.terminate starts
\* only if it has never started before and one goroutine at most runs it; no
\* member is sent more than one SIGTERM; and a caller of Worker.Exit() or
\* Worker.die() returns only when the teardown is over, every member's Exit()
\* having returned.
C14_SingleTeardown ==
    /\ [](/\ Cardinality(TeardownRunners) <= 1
          /\ \A h \in DOMAIN sigSent : sigSent[h] <= 1
          /\ pcUser = "returned" =>
                (workerOnce = "done" /\ \A c \in DOMAIN pcExit : pcExit[c] = "returned"))
    /\ [][/\ pcTeardown' = "terminate" => pcTeardown \in {"none", "terminate"}
          /\ \A h \in DOMAIN pcCb :
                (pcCb[h] \in {"die", "teardown"} /\ pcCb'[h] = "none") =>
                    (workerOnce' = "done" /\
                     \A c \in DOMAIN pcExit : pcExit'[c] = "returned")]_vars

\* A caller of Worker.Exit() is blocked while a member's watcher runs the teardown.
C14_Witness ==
    /\ pcUser = "once"
    /\ \E h \in DOMAIN pcCb : pcCb[h] = "teardown"
    /\ pcTeardown = "loop"
    /\ \E c \in DOMAIN pcExit : pcExit[c] = "waitDone"

C16_NoMemberRunsAfterFailure ==
    (/\ Len(workerCbLog) > 0
     /\ workerOnce = "done"
     /\ pcMain = "returned") =>
        \A h \in DOMAIN proc : proc[h] # "alive"

\* The errors in the collector that the OnError closure of member h appended.
FatalErrors(h) ==
    {k \in 1..Len(errors) : errors[k].member = h /\ errors[k].kind = "fatal"}

\* The invocations of the Worker's OnError closure by the watcher of member h.
ErrorClosureRuns(h) ==
    {k \in 1..Len(cbLog[h]) : cbLog[h][k].cb = GroupErrorCallback}

\* C17 (as claimed): the OnError closure appends the member's error only if
\* the Worker is not terminating: no error of an error callback enters the
\* collector while w.terminating is set.
C17_NoErrorAddedWhileTerminating ==
    \A k \in 1..Len(errors) : errors[k].kind = "fatal" => ~errors[k].late

\* C17 (amended): every invocation of the OnError closure appends the member's
\* error to the collector, whether or not the Worker is terminating (only the
\* call of Worker.die depends on w.terminating).
C17_ErrorClosureAlwaysAppends ==
    \A h \in DOMAIN cbLog :
        Cardinality(FatalErrors(h)) = Cardinality(ErrorClosureRuns(h))

\* A member's error has been appended while w.terminating was set.
C17_Witness ==
    \E k \in 1..Len(errors) :
        /\ errors[k].kind = "fatal" /\ errors[k].late
        /\ Cardinality(ErrorClosureRuns(errors[k].member)) = 1

\* C18: when the program calls Worker.Exit() on a group none of whose members
\* has failed (no process has exited on its own, no spawn has failed), no
\* error is recorded: no error callback of a member fires, no closure treats
\* an exit as unexpected or calls Worker.die, the Worker's error callbacks are
\* not invoked, the collector stays empty, and when Worker.Exit() has returned
\* every member that the teardown signalled has exited from that signal and
\* has fired its exit callbacks.
C18_GracefulExitRecordsNoError ==
    (pcUser \in {"teardown", "returned"} /\ Failed = {}) =>
        /\ errors = <<>>
        /\ workerCbLog = <<>>
        /\ \A h \in DOMAIN proc : errFired[h] = 0 /\ pcCb[h] = "none"
        /\ pcUser = "returned" =>
              \A h \in DOMAIN proc :
                  sigSent[h] > 0 =>
                      /\ proc[h] = "signaled"
                      /\ exitFired[h] = 1
                      /\ pcWatch[h] = "finished"

C18_Witness ==
    /\ pcUser = "returned"
    /\ Failed = {}
    /\ \A h \in DOMAIN proc : sigSent[h] = 1 /\ proc[h] = "signaled"
    /\ \A h \in DOMAIN proc : exitFired[h] = 1
    /\ errors = <<>>

\* C20: RunSequentially starts the members one at a time in registration
\* order: a member whose Run() has been invoked (so also one whose process has
\* been spawned) has every earlier member's Run() call returned.
C20_SequentialStartInOrder ==
    sequentialMode =>
        \A g, h \in DOMAIN pcRun :
            (g < h /\ (pcRun[h] # "pending" \/ proc[h] # "none" \/ cmdSet[h])) =>
                pcRun[g] = "returned"

C20_Witness ==
    /\ sequentialMode
    /\ pcRun[1] = "returned"
    /\ pcRun[2] = "returned"
    /\ pcRun[3] \notin {"pending", "returned"}
    /\ proc[3] = "alive"

\* The member whose closure ran the teardown, if a closure did: Worker.die
\* passes its error to the Worker's error callbacks before it terminates.
CascadeRunner == {h \in DOMAIN proc : workerCbLog # <<>> /\ workerCbLog[1].member = h}

\* C19: when the teardown has returned, Exit() has returned for every member,
\* every member process that was started has exited, and the watcher of every
\* member other than the one whose closure ran the teardown has finished its
\* callbacks, so that nothing can be added to the collector any more.
C19_TeardownReturnsAfterMembersEnd ==
    workerOnce = "done" =>
        \A h \in DOMAIN proc :
            /\ pcExit[h] = "returned"
            /\ proc[h] # "alive"
            /\ (proc[h] # "none" /\ h \notin CascadeRunner) => pcWatch[h] = "finished"

\* C21: Worker.Run() returns only after every member's Run() call has
\* returned: for a daemon after its spawn (or the failure of its spawn) and,
\* with a readiness port, after a connection attempt has succeeded or all
\* portCheckMaxAttempts attempts have failed; for a job after its process has
\* ended and its completion signal has fired (or its spawn has failed).  And
\* once every member's Run() call has returned, Worker.Run() can return.
C21_RunReturnsAfterEveryMember ==
    /\ pcMain = "returned" =>
          \A h \in DOMAIN pcRun :
              /\ pcRun[h] = "returned"
              /\ spawnFailed[h] \/ cmdProcess[h]
              /\ (~spawnFailed[h] /\ port[h] # 0) =>
                     (dialOk[h] \/ dials[h] = portCheckMaxAttempts)
              /\ (~spawnFailed[h] /\ job[h]) =>
                     (proc[h] \notin {"none", "alive"} /\ done[h])
    /\ (pcMain = "wait" /\ \A h \in DOMAIN pcRun : pcRun[h] = "returned") =>
          ENABLED WorkerRunReturns

C21_Witness ==
    /\ pcMain = "returned"
    /\ \E h \in DOMAIN pcRun : job[h] /\ done[h] /\ proc[h] = "exit0"
    /\ \E h \in DOMAIN pcRun : ~job[h] /\ port[h] # 0 /\ dialOk[h] /\ proc[h] = "alive"

\* The positions of cbLog[h] at which callback cb was invoked with an error.
ErrorInvocations(h, cb) ==
    {i \in 1..Len(cbLog[h]) : cbLog[h][i].cb = cb /\ cbLog[h][i].arg # "none"}

\* C22: over the whole life of a handle runErrorCallbacks is invoked at most
\* once and invokes each registered error callback at most once, whatever the
\* interleaving of spawn failure, readiness timeout, process exit and Exit()
\* calls; and Run() returns no value.
C22_ErrorCallbacksAtMostOnce ==
    \A h \in DOMAIN pcRun :
        /\ errFired[h] <= 1
        /\ \A k \in 1..Len(errorCallbacks[h]) :
              Cardinality(ErrorInvocations(h, errorCallbacks[h][k])) <= 1
        /\ (\E i \in 1..Len(cbLog[h]) : cbLog[h][i].arg # "none") => errFired[h] = 1
        /\ (pcRun[h] = "returned" /\ entry[h] = "Run") => runResult[h] = "void"

C22_Witness ==
    \E h \in DOMAIN pcRun :
        /\ entry[h] = "Run"
        /\ pcRun[h] = "returned"
        /\ runResult[h] = "void"
        /\ errFired[h] = 1
        /\ pcWatch[h] = "finished"
        /\ Len(errorCallbacks[h]) >= 1
        /\ \A k \in 1..Len(errorCallbacks[h]) :
              Cardinality(ErrorInvocations(h, errorCallbacks[h][k])) = 1
        /\ \E c \in DOMAIN pcExit : exitTarget[c] = h /\ pcExit[c] = "returned"

\* C23: a teardown started by Worker.die from a member's exit-watcher comes
\* to an end: when nothing more can happen in the group (every signalled
\* process has ended, every goroutine has returned or is blocked for good),
\* the teardown has returned and the completion signal of the member whose
\* closure ran it has fired.
C23_CascadeTeardownTerminates ==
    (workerCbLog # <<>> /\ ~ENABLED ConcNext) =>
        /\ workerOnce = "done"
        /\ \A h \in CascadeRunner : done[h]

\* C24: when the readiness port of a member never opens (waitForPort has
\* given up and Run() has called die), the group does not end up blocked: when
\* nothing more can happen, the member's Run() has returned, the teardown has
\* returned, no other member's process is alive and the collector holds an
\* error that names the member.
C24_ReadinessTimeoutTearsDownGroup ==
    \A h \in DOMAIN pcRun :
        (dieErr[h] = "portErr" /\ ~ENABLED MixedNext) =>
            /\ pcRun[h] = "returned"
            /\ workerOnce = "done"
            /\ \A g \in DOMAIN proc : g # h => proc[g] # "alive"
            /\ \E k \in 1..Len(errors) : errors[k].member = h

\* C25: a Worker.Exit() called from a callback (the Worker's error callback,
\* or a callback of a member) does not block for good: when nothing more can
\* happen, no callback is still inside its call of Worker.Exit() and no
\* teardown is unfinished.
C25_ReentrantExitReturns ==
    ~ENABLED ReentrantNext =>
        /\ \A h \in DOMAIN pcCb : pcCb[h] # "exitOnce"
        /\ workerOnce # "running"

\* C26: in concurrent mode the teardown hands one Exit() call to a goroutine
\* for every member: while the loop runs, the members above the loop index
\* have had their call dispatched and the others have not; a member's call is
\* dispatched only once (never again after it has been dispatched); and when
\* the teardown has returned, the Exit() call of every member has returned.
C26_ConcurrentTeardownCoversAll ==
    /\ []((~sequentialMode /\ pcTeardown \in {"loop", "done"}) =>
             /\ \A c \in DOMAIN pcExit : (c > tdIdx) <=> (pcExit[c] # "idle")
             /\ \A c \in DOMAIN pcExit : exitCalled[c] <=> ExitBegun(c)
             /\ pcTeardown = "done" => \A c \in DOMAIN pcExit : pcExit[c] = "returned")
    /\ [][\A c \in DOMAIN pcExit :
              /\ (pcExit'[c] = "dispatched" /\ pcExit[c] # "dispatched") => pcExit[c] = "idle"
              /\ pcExit[c] = "returned" => pcExit'[c] = "returned"]_vars

C26_Witness ==
    /\ ~sequentialMode
    /\ pcTeardown = "done"
    /\ \A c \in DOMAIN pcExit : pcExit[c] = "returned" /\ sigDelivered[c] = 1

C28_DaemonRunReturnsWhenReady ==
    \A h \in DOMAIN pcRun :
        (entry[h] = "Run" /\ ~job[h] /\ cmdProcess[h]) =>
            /\ port[h] = 0 =>
                  /\ dials[h] = 0
                  /\ pcRun[h] \in {"jobWait", "returned"}
                  /\ pcRun[h] = "jobWait" => ENABLED RunReturns(h)
            /\ (port[h] # 0 /\ pcRun[h] = "returned") =>
                  (dialOk[h] \/ dials[h] = portCheckMaxAttempts)
            /\ dialOk[h] =>
                  /\ dials[h] = attempts[h] + 1
                  /\ pcRun[h] \in {"jobWait", "returned"}
                  /\ pcRun[h] = "jobWait" => ENABLED RunReturns(h)
                  /\ dieErr[h] = "nil"
                  /\ proc[h] = "alive" =>
                        (errFired[h] = 0 /\ exitFired[h] = 0 /\ cbLog[h] = <<>>)

C28_Witness ==
    \E h \in DOMAIN pcRun :
        /\ entry[h] = "Run" /\ ~job[h]
        /\ port[h] # 0
        /\ dialOk[h] /\ dials[h] = 3
        /\ pcRun[h] = "returned"
        /\ proc[h] = "alive"

\* C29: Exit() sends the termination signal only to a process that is still
\* alive.  When Exit() evaluates isRunning() on a handle whose process has been
\* reaped by the watcher (cmd.ProcessState is set: exit code 0, nonzero exit
\* code or killed by a signal) or that was never started (no cmd.Process), it
\* does not go on to Signal() and to the wait on done: it returns.
C29_ExitSignalsOnlyLiveProcess ==
    [][\A c \in DOMAIN pcExit :
          (pcExit[c] = "check" /\ pcExit'[c] # "check") =>
              IF cmdProcess[exitTarget[c]] /\ processState[exitTarget[c]] = "nil"
                 THEN pcExit'[c] = "signal"
                 ELSE pcExit'[c] = "release"]_vars

\* C30: the completion signal of a handle is closed by the exit watcher only,
\* once, after the classification and the callbacks.  In every state: done is
\* closed exactly when the watcher has finished, and then the handle was
\* spawned, its process was reaped and exactly one class of callbacks fired.
\* In every step that changes done: done goes from open to closed, the watcher
\* takes the step that ends it, having gone through the whole list of the
\* class that fired, and neither Run() (die, the readiness timeout, the spawn
\* failure) nor any Exit() call moves.
C30_DoneClosedOnceByWatcher ==
    /\ [](\A h \in DOMAIN done :
            /\ done[h] <=> pcWatch[h] = "finished"
            /\ done[h] =>
                  /\ cmdProcess[h] /\ ~spawnFailed[h]
                  /\ processState[h] # "nil"
                  /\ errFired[h] + exitFired[h] = 1
                  /\ Len(cbLog[h]) = IF errFired[h] = 1 THEN Len(errorCallbacks[h])
                                                       ELSE Len(exitCallbacks[h]))
    /\ [][\A h \in DOMAIN done :
            done'[h] # done[h] =>
                /\ ~done[h] /\ done'[h]
                /\ pcWatch[h] \in {"errorCallbacks", "exitCallbacks"}
                /\ cbIdx[h] > Len(FiringList(h))
                /\ pcWatch'[h] = "finished"
                /\ pcRun' = pcRun
                /\ pcExit' = pcExit]_vars

C30_Witness ==
    \E h \in DOMAIN done :
        /\ done[h]
        /\ Len(cbLog[h]) = MaxUserCallbacks
        /\ \E c \in DOMAIN pcExit : pcExit[c] = "returned" /\ sigSent[h] > 0
        /\ dieErr[h] = "nil"

\* C31: in a group, a job whose process exits with status 0 on its own (no
\* SIGTERM reached it) does not trigger a cascade.  Its watcher never enters a
\* closure of the Worker, no error of w.errors and no invocation of the Worker's
\* error callbacks names it; and if no other member has failed (no spawn
\* failure, no readiness timeout, no process that ended on its own otherwise)
\* then nothing is recorded, no teardown has begun, no signal has been sent and
\* every other spawned member is still running.  The OnExit closure is
\* registered on non-job members only.
C31_JobCleanExitNoCascade ==
    /\ \A h \in DOMAIN proc :
          (job[h] /\ proc[h] = "exit0" /\ sigDelivered[h] = 0) =>
              /\ pcCb[h] = "none"
              /\ errFired[h] = 0
              /\ \A k \in 1..Len(errors) : errors[k].member # h
              /\ \A k \in 1..Len(workerCbLog) : workerCbLog[k].member # h
              /\ (\A g \in DOMAIN proc \ {h} :
                     /\ ~spawnFailed[g] /\ dieErr[g] = "nil"
                     /\ proc[g] \in {"none", "alive"}) =>
                    /\ errors = <<>>
                    /\ workerOnce = "fresh"
                    /\ ~terminating
                    /\ pcTeardown = "none"
                    /\ \A g \in DOMAIN proc \ {h} :
                          /\ sigSent[g] = 0
                          /\ exitCalled[g] = FALSE
                          /\ cmdProcess[g] => proc[g] = "alive"
    /\ \A h \in DOMAIN proc :
          \A i \in 1..Len(exitCallbacks[h]) :
              exitCallbacks[h][i] = GroupExitCallback => ~job[h]

\* The job has exited cleanly, its watcher has finished, and the daemon, ready
\* on its port, is running in a group that Run() has returned from.
C31_Witness ==
    \E h \in DOMAIN proc :
        /\ job[h] /\ proc[h] = "exit0" /\ sigDelivered[h] = 0
        /\ done[h] /\ exitFired[h] = 1
        /\ pcMain = "returned"
        /\ \E g \in DOMAIN proc \ {h} :
              ~job[g] /\ proc[g] = "alive" /\ dialOk[g] /\ pcRun[g] = "returned"

\* The members whose OnError closure has recorded its error while w.terminating
\* was still false.
FailedBeforeTeardown ==
    {h \in DOMAIN pcRun :
        \E k \in 1..Len(errors) :
            errors[k].member = h /\ errors[k].kind = "fatal" /\ ~errors[k].late}

\* C32: when the error callbacks of both members of a group have fired before
\* the teardown began, the Worker's error callbacks are invoked once, one
\* goroutine at most runs the teardown, and the group does not come to rest
\* before the teardown has returned, both watchers have left the Worker's
\* closure and both completion signals are closed.
C32_ConcurrentFailuresOneTeardown ==
    FailedBeforeTeardown = DOMAIN pcRun =>
        /\ Len(workerCbLog) <= 1
        /\ Cardinality(TeardownRunners) <= 1
        /\ ~ENABLED RaceNext =>
              /\ workerOnce = "done"
              /\ Len(workerCbLog) = 1
              /\ \A h \in DOMAIN pcRun :
                    pcCb[h] = "none" /\ pcWatch[h] = "finished" /\ done[h]

\* C33: once an Exit() on a handle has returned, the handle has no running
\* process, whether Run() was called before the Exit(), after it, or spawned
\* while it ran.
C33_NoProcessAfterExit ==
    \A c \in DOMAIN pcExit :
        pcExit[c] = "returned" => proc[exitTarget[c]] # "alive"

\* Job h was spawned and its process exited with status 0 without having been
\* sent a signal.
JobCompleted(h) ==
    /\ cmdProcess[h]
    /\ proc[h] = "exit0"
    /\ sigSent[h] = 0

\* C34: Server.Run() has returned nil only if the init job ran to completion
\* without failure and the start job then was spawned, got a connection on its
\* readiness port and ran to completion without failure; and the start job is
\* not run when the init job's RunAsJob() has reported an error.
C34_ServerRunNilMeansBothJobsSucceeded ==
    /\ pcMain = "returnedNil" =>
          /\ JobCompleted(InitJob)
          /\ JobCompleted(StartJob)
          /\ dialOk[StartJob]
    /\ runResult[InitJob] \notin {"unset", "nil"} =>
          (entry[StartJob] = "none" /\ pcMain \in {"initJob", "returnedErr"})

\* A step of Server.Shutdown between the return of the stop job and its own
\* return: an Exit() call, a step of one, or the return.
ShutdownStep ==
    \/ \E h \in ServerJobs : ServerCallsExit(h)
    \/ \E c \in DOMAIN pcExit : ExitEnter(c)
    \/ \E c \in DOMAIN pcExit : ExitCheck(c)
    \/ \E c \in DOMAIN pcExit : ExitSignal(c)
    \/ \E c \in DOMAIN pcExit : ExitWaitDone(c)
    \/ \E c \in DOMAIN pcExit : ExitRelease(c)
    \/ ServerShutdownReturns

\* C35: Server.Shutdown() does not block in its Exit() calls.  Once the stop
\* job has run, no process of the three handles is alive, Shutdown can always
\* take its next step, an Exit() that waits on a completion signal waits on one
\* that is already closed, and no signal reaches a process.  Process.Signal is
\* called only on a handle whose reaped process was killed by a signal: that
\* call finds the process finished and sends nothing.
C35_ShutdownExitsDoNotBlock ==
    /\ [](pcUser = "exits" =>
            /\ \A h \in ServerJobs : proc[h] # "alive"
            /\ \A c \in DOMAIN pcExit : pcExit[c] = "waitDone" => done[exitTarget[c]]
            /\ ENABLED ShutdownStep)
    /\ [][pcUser = "exits" =>
            /\ sigDelivered' = sigDelivered
            /\ \A h \in ServerJobs :
                  sigSent'[h] # sigSent[h] =>
                      (processState[h] = "signaled" /\ done[h])]_vars

\* Shutdown has returned after its three Exit() calls: the init job had been
\* killed by a signal, the start job was never run, the stop job completed.
C35_Witness ==
    /\ pcUser = "returnedNil"
    /\ \A c \in DOMAIN pcExit : pcExit[c] = "returned"
    /\ proc[InitJob] = "signaled" /\ sigSent[InitJob] = 1
    /\ entry[StartJob] = "none"
    /\ proc[StopJob] = "exit0"

\* The callbacks of the class that has fired on h, in registration order.
FiredClass(h) == IF errFired[h] > 0 THEN errorCallbacks[h] ELSE exitCallbacks[h]

\* C36: within one firing the callbacks of the fired class are invoked once
\* each, in registration order.  While the watcher of h runs them, those
\* invoked so far are the first ones of the class's list, in the list's order;
\* when it has finished they are exactly that list; and a callback the
\* program registered before the group was run is invoked before the closure
\* the Worker registered on the handle.
C36_CallbacksInRegistrationOrder ==
    \A h \in DOMAIN pcWatch :
        /\ pcWatch[h] \in {"errorCallbacks", "exitCallbacks"} =>
              /\ Len(cbLog[h]) <= Len(FiredClass(h))
              /\ LoggedCallbacks(h) = SubSeq(FiredClass(h), 1, Len(cbLog[h]))
              /\ Len(cbLog[h]) = cbIdx[h] - (IF pcCb[h] = "none" THEN 1 ELSE 0)
        /\ pcWatch[h] = "finished" => LoggedCallbacks(h) = FiredClass(h)
        /\ \A i, j \in 1..Len(cbLog[h]) :
              /\ i # j => cbLog[h][i].cb # cbLog[h][j].cb
              /\ (cbLog[h][i].cb[1] = "user"
                    /\ cbLog[h][j].cb \in {GroupErrorCallback, GroupExitCallback}) => i < j

\* The watcher of a failed member has finished after invoking the program's
\* callbacks and then the Worker's closure, and a member stopped by the
\* teardown has run its exit callbacks.
C36_Witness ==
    \E h, g \in DOMAIN pcWatch :
        /\ pcWatch[h] = "finished" /\ errFired[h] = 1
        /\ Len(cbLog[h]) = MaxUserCallbacks + 1
        /\ cbLog[h][Len(cbLog[h])].cb = GroupErrorCallback
        /\ pcWatch[g] = "finished" /\ exitFired[g] = 1
        /\ Len(cbLog[g]) = MaxUserCallbacks + 1

\* C37: b.exiting and w.terminating are never reset; b.exiting is set only by
\* an Exit() call on the handle, in the body of terminateOnce.Do, and never by
\* a step of Run() (die, after a spawn failure or a readiness timeout);
\* w.terminating is set before the teardown calls Exit() on any member.
C37_FlagsMonotonic ==
    /\ [](/\ \A h \in DOMAIN exiting : exiting[h] => exitCalled[h]
          /\ (\E c \in DOMAIN pcExit : pcExit[c] # "idle") => terminating)
    /\ [][/\ terminating => terminating'
          /\ terminating' # terminating => \A c \in DOMAIN pcExit : pcExit[c] = "idle"
          /\ \A h \in DOMAIN exiting :
                /\ exiting[h] => exiting'[h]
                /\ exiting'[h] # exiting[h] =>
                      /\ pcRun' = pcRun
                      /\ \E c \in DOMAIN pcExit :
                            /\ exitTarget[c] = h
                            /\ pcExit[c] = "once" /\ pcExit'[c] = "check"]_vars

\* The daemon has gone through die after its readiness timeout without being
\* marked as exiting, while the teardown has marked the job.
C37_Witness ==
    \E h, g \in DOMAIN exiting :
        /\ dieErr[h] = "portErr" /\ terminateOnce[h] # "fresh"
        /\ ~exiting[h]
        /\ terminating
        /\ exiting[g]

====
